---- MODULE Spec2Model ----
(***************************************************************************)
(* Verification model of the anhelo streaming pipeline:                     *)
(*   - the HLS playlist refresh loop   (src/src/dmux/hls/hls_demuxer.c)     *)
(*   - the H.264 parameter-set/slice state machines                         *)
(*   - the frame pacing / frame-skip loops of main()                        *)
(*   - Annex-B NAL extraction of hls_segment_callback                       *)
(*   - the transport-stream demultiplexer of hls_segment_callback           *)
(* Each subsystem has its own specification; the variables of the other     *)
(* subsystems stay at their initial values.                                 *)
(***************************************************************************)
EXTENDS Integers, Sequences, FiniteSets, TLC

VARIABLES
    \* ---- hls_process_stream ----
    hpc,                 \* "fetch" (top of while(1)), "segment" (in the for loop), "sleep", "done" (returned)
    playlist,            \* segment URIs of the playlist parsed last
    i,                   \* loop index of the for loop (0-based, as in the code)
    last_count,          \* size_t last_count
    last_processed_url,  \* char *last_processed_url ("NULL" when unset)
    hret,                \* value returned by hls_process_stream ("none" while running)
    nfetch,              \* number of playlist downloads made so far
    delivered,           \* URIs the segment callback has been invoked for
    example,             \* observer of the runs that download ExampleFeed
    hlast,               \* what the last step of the loop did (observation record)
    \* ---- H.264 state machines ----
    codec,               \* the decoder the build uses: "simple_h264" or "openh264"
    dpc,                 \* "run", or "crashed" after undefined behaviour took the process down
    decoder,             \* struct simple_h264_decoder
    ctx,                 \* struct openh264_decoder_ctx
    dlast,               \* the last decoder call: its arguments, result and *frame
    \* ---- frame pacing ----
    player,              \* the frame path that runs: "ffmpeg" (main.c), "ffmpeg_legacy" (part_004), "hls"
    skip_remaining,      \* static int skip_remaining
    frames_displayed,    \* static int frames_displayed
    frames_dropped,      \* static int frames_dropped
    last_frame_time,     \* static uint64_t last_frame_time
    should_quit,         \* should_quit / should_quit_hls
    clock,               \* what get_time_us() returns
    events,              \* fate of each frame-ready event: "displayed", "drop" or "none"
    disturbed,           \* a render set-up failed or a packet was dropped before decoding
    \* ---- NAL extraction in hls_segment_callback ----
    video,               \* the video output exists (video != NULL)
    ncalls,              \* callbacks and flushes made so far
    nlast,               \* the last callback or flush: payload, units handed on, frames drawn, result
    \* ---- transport-stream branch of hls_segment_callback ----
    tpc,                 \* "idle", "loop" (packet loop), "final" (after the loop), "done" (about to return)
    seg,                 \* const unsigned char *data, size
    desc,                \* how seg was put together (observer)
    pos,                 \* size_t pos of the packet loop
    video_pid,           \* int video_pid
    pes_buf,             \* pes_buf, pes_buf_len
    flushed,             \* the PES buffers handed to a flush, in order (observer)
    tret,                \* what the last callback returned
    tfail,               \* a realloc of pes_buf failed in this callback (observer)
    \* ---- playlist text: hls_parse_playlist_from_memory and its callers ----
    ppc,                 \* "idle", "lines" (in the line loop), "parsed" (returned HLS_OK), "done"
    source,              \* how the playlist text was put together (observer)
    playlist_url,        \* const char *playlist_url
    m3u8,                \* const char *data, len
    line,                \* const char *line, as an offset into data
    parsed,              \* hls_playlist_t *playlist
    current_duration,    \* double current_duration
    pret,                \* what hls_parse_playlist_from_memory returned ("none" before)
    pfail,               \* an allocation failed during the parse (observer)
    fetched,             \* the URLs hls_process_stream resolved for the segments, in order
    is_master,           \* what hls_is_master_playlist said of the text ("unset" before)
    \* ---- pick_lowest_variant_from_master ----
    kpc,                 \* "idle", "scan" (in while (*p)), "select" (the for loop), "done" (returned)
    master,              \* the variants the master playlist declares (observer)
    master_content,      \* const char *master_content
    scan_p,              \* const char *p, as an offset into master_content
    list,                \* struct variant *list, n
    best_idx,            \* int best_idx
    sel_i,               \* size_t i of the selection loop
    picks,               \* the URIs returned by the calls made on this master playlist (observer)
    kfail,               \* an allocation failed in one of those calls (observer)
    \* ---- the RGB buffer of the HLS render paths (main.c) ----
    rgb_buffer,          \* static uint8_t *rgb_buffer: the pointer, and the bytes allocated behind it
    last_wh,             \* static int last_w, last_h of process_h264_nal_unit
    hls_last_wh,         \* static int hls_last_w, hls_last_h of the direct segment decode
    last_wh_all,         \* static int last_w_all, last_h_all of the whole-PES feed
    nrender,             \* frames that reached a render path so far
    rlast,               \* the last frame: its path, its dimensions, the room it was converted into
    pool,                \* frame_pool_t: frames, available, pool_size (made = FALSE: no pool)
    held,                \* frames handed out by the pool and not given back (observer)
    plast,               \* the last pool call: its name, its argument or result, held before it
    sps_nal,             \* the NAL unit parse_sps was called with (<<>>: not called yet)
    sps_top              \* the highest index of data[] that call read (-1: none) (observer)

hlsVars == <<hpc, playlist, i, last_count, last_processed_url, hret, nfetch, delivered,
             example, hlast>>

decVars == <<codec, dpc, decoder, ctx, dlast>>

paceVars == <<player, skip_remaining, frames_displayed, frames_dropped, last_frame_time,
              should_quit, clock, events, disturbed>>

nalVars == <<video, ncalls, nlast>>

tsVars == <<tpc, seg, desc, pos, video_pid, pes_buf, flushed, tret, tfail>>

parseVars == <<ppc, source, playlist_url, m3u8, line, parsed, current_duration, pret, pfail,
               fetched, is_master>>

pickVars == <<kpc, master, master_content, scan_p, list, best_idx, sel_i, picks, kfail>>

textVars == <<parseVars, pickVars>>

rgbVars == <<rgb_buffer, last_wh, hls_last_wh, last_wh_all, nrender, rlast>>

poolVars == <<pool, held, plast>>

spsVars == <<sps_nal, sps_top>>

memVars == <<rgbVars, poolVars, spsVars>>

vars == <<hlsVars, decVars, paceVars, nalVars, tsVars, textVars, memVars>>

\* the variables a subsystem leaves alone
NotHls == <<decVars, paceVars, nalVars, tsVars, textVars, memVars>>
NotDec == <<hlsVars, paceVars, nalVars, tsVars, textVars, memVars>>
NotPace == <<hlsVars, decVars, nalVars, tsVars, textVars, memVars>>
NotText == <<hlsVars, decVars, paceVars, nalVars, tsVars, memVars>>
NotMem == <<hlsVars, decVars, paceVars, nalVars, tsVars, textVars>>
NotRgb == <<NotMem, poolVars, spsVars>>
NotPool == <<NotMem, rgbVars, spsVars>>
NotSps == <<NotMem, rgbVars, poolVars>>

\* ------------------------------------------------------------------------
\* Bounds of the model
MaxSegs == 3        \* longest playlist served
MaxFetches == 2     \* playlist downloads in one run

URIs == {"A", "B", "C", "D"}
NULL == "NULL"

\* Playlists the server may answer with: every sequence of URIs up to MaxSegs,
\* repeated URIs included (the parser does not deduplicate).
Playlists == UNION {[1..n -> URIs] : n \in 0..MaxSegs}

\* The playlist downloads of the sliding-window example.
ExampleFeed == << <<"A", "B", "C">>, <<"B", "C", "D">> >>

\* Bodies a segment download may yield (size 0, 1, 2).
Bodies == {<<>>, <<71>>, <<71, 64>>}

\* Values the segment callback may return (0 = continue).
CallbackResults == {0, 1, -1}

\* hlast names the step taken last and the environment's part in it: the body
\* the segment download yielded and the bytes the callback was given.
\* "called" tells whether the callback was invoked, "cb" is what it returned.
NoOp == [op |-> "none", body |-> <<>>, called |-> FALSE, cbdata |-> <<>>, cb |-> 0]

\* ------------------------------------------------------------------------
\* hls_process_stream: start index of the dispatch loop
Min(a, b) == IF a < b THEN a ELSE b

\* the for loop of lines 184-189: i + 1 for the first i whose url matches, else 0
IndexAfterMatch(pl, url) ==
    IF \E k \in 1..Len(pl) : pl[k] = url
    THEN CHOOSE k \in 1..Len(pl) : pl[k] = url /\ \A j \in 1..(k-1) : pl[j] # url
    ELSE 0

\* a start index that always resumes at the previous segment count
StartIndexByCount(pl, lastUrl, lastCount) == Min(lastCount, Len(pl))

StartIndex(pl, lastUrl, lastCount) ==
    LET s == IF lastUrl # NULL
             THEN IndexAfterMatch(pl, lastUrl)
             ELSE lastCount
    IN Min(s, Len(pl))

\* End of one iteration of the for loop: advance i; when the loop is over,
\* record last_count and go to the usleep that precedes the next download.
Advance(newLast) ==
    /\ last_processed_url' = newLast
    /\ i' = i + 1
    /\ IF i + 1 < Len(playlist)
       THEN /\ hpc' = "segment"
            /\ UNCHANGED last_count
       ELSE /\ hpc' = "sleep"
            /\ last_count' = Len(playlist)

\* The observer: while the playlists downloaded so far are a prefix of
\* ExampleFeed it logs the callback invocations and counts the skipped segments.
ExampleOff == [on |-> FALSE, log |-> <<>>, skipped |-> 0]

ExampleFetch(pl) ==
    IF example.on /\ nfetch < Len(ExampleFeed) /\ pl = ExampleFeed[nfetch + 1]
    THEN example
    ELSE ExampleOff

ExampleCall(url) ==
    IF example.on THEN [example EXCEPT !.log = Append(@, url)] ELSE example

ExampleSkip ==
    IF example.on THEN [example EXCEPT !.skipped = @ + 1] ELSE example

HlsInit ==
    /\ hpc = "fetch"
    /\ playlist = <<>>
    /\ i = 0
    /\ last_count = 0
    /\ last_processed_url = NULL
    /\ hret = "none"
    /\ nfetch = 0
    /\ delivered = {}
    /\ example = [on |-> TRUE, log |-> <<>>, skipped |-> 0]
    /\ hlast = NoOp

\* download_url of the playlist fails: return err
PlaylistFetchFail ==
    /\ hpc = "fetch"
    /\ nfetch < MaxFetches
    /\ nfetch' = nfetch + 1
    /\ hpc' = "done"
    /\ hret' = "HLS_ERROR_NETWORK"
    /\ hlast' = [NoOp EXCEPT !.op = "playlist_fail"]
    /\ example' = ExampleOff
    /\ UNCHANGED <<playlist, i, last_count, last_processed_url, delivered>>
    /\ UNCHANGED NotHls

\* malloc of the playlist buffer, hls_playlist_create or the parser's strndup fails
PlaylistNoMem ==
    /\ hpc = "fetch"
    /\ nfetch < MaxFetches
    /\ hpc' = "done"
    /\ hret' = "HLS_ERROR_MEMORY"
    /\ hlast' = [NoOp EXCEPT !.op = "playlist_nomem"]
    /\ example' = ExampleOff
    /\ UNCHANGED <<playlist, i, last_count, last_processed_url, delivered, nfetch>>
    /\ UNCHANGED NotHls

\* the playlist is downloaded and parsed; the start index is computed
PlaylistFetchOk ==
    /\ hpc = "fetch"
    /\ nfetch < MaxFetches
    /\ \E pl \in Playlists :
         LET s == StartIndex(pl, last_processed_url, last_count) IN
         /\ playlist' = pl
         /\ i' = s
         /\ nfetch' = nfetch + 1
         /\ example' = ExampleFetch(pl)
         /\ hlast' = [NoOp EXCEPT !.op = "playlist_ok"]
         /\ IF s < Len(pl)
            THEN hpc' = "segment" /\ UNCHANGED last_count
            ELSE hpc' = "sleep" /\ last_count' = Len(pl)
    /\ UNCHANGED <<last_processed_url, hret, delivered>>
    /\ UNCHANGED NotHls

\* hls_resolve_url returns NULL or malloc of seg_buf fails: continue
SegmentNoMem ==
    /\ hpc = "segment"
    /\ hlast' = [NoOp EXCEPT !.op = "segment_nomem"]
    /\ example' = ExampleSkip
    /\ Advance(last_processed_url)
    /\ UNCHANGED <<playlist, hret, nfetch, delivered>>
    /\ UNCHANGED NotHls

\* a segment download failure that ends the loop like a playlist failure does
SegmentFetchFailAborts ==
    /\ hpc = "segment"
    /\ hlast' = [NoOp EXCEPT !.op = "segment_fail"]
    /\ hpc' = "done"
    /\ hret' = "HLS_ERROR_NETWORK"
    /\ example' = ExampleSkip
    /\ UNCHANGED <<playlist, i, last_count, last_processed_url, nfetch, delivered>>
    /\ UNCHANGED NotHls

\* a failed download that leaves last_processed_url as it was
LastProcessedKept(url, last) == last

\* "update last processed URL to current segment": also behind a failed download
LastProcessedAfterFail(url, last) == url

\* download_url of the segment fails: the callback is not called
SegmentFetchFail ==
    /\ hpc = "segment"
    /\ hlast' = [NoOp EXCEPT !.op = "segment_fail"]
    /\ example' = ExampleSkip
    /\ Advance(LastProcessedAfterFail(playlist[i + 1], last_processed_url))
    /\ UNCHANGED <<playlist, hret, nfetch, delivered>>
    /\ UNCHANGED NotHls

\* the download succeeds: the callback is called when seg_buf.size > 0
CallbackWanted(body) == Len(body) > 0

\* a callback that is handed the first byte only
CallbackDataHead(body) == SubSeq(body, 1, 1)

\* the bytes handed to the callback: seg_buf.data, seg_buf.size
CallbackData(body) == body

\* a stop test that honours positive return values only
StopRequestedPositive(cb) == cb > 0

\* if (cb) { ... return HLS_OK; }
StopRequested(cb) == cb # 0

SegmentFetchOk ==
    /\ hpc = "segment"
    /\ \E body \in Bodies, cb \in CallbackResults :
         LET url == playlist[i + 1] IN
         IF CallbackWanted(body)
         THEN /\ delivered' = delivered \cup {url}
              /\ example' = ExampleCall(url)
              /\ hlast' = [op |-> "segment_ok", body |-> body, called |-> TRUE,
                           cbdata |-> CallbackData(body), cb |-> cb]
              /\ IF StopRequested(cb)
                 THEN /\ hpc' = "done"
                      /\ hret' = "HLS_OK"
                      /\ last_processed_url' = NULL
                      /\ UNCHANGED <<i, last_count>>
                 ELSE /\ Advance(url)
                      /\ UNCHANGED hret
         ELSE /\ cb = 0
              /\ hlast' = [NoOp EXCEPT !.op = "segment_ok", !.body = body]
              /\ example' = ExampleSkip
              /\ Advance(url)
              /\ UNCHANGED <<hret, delivered>>
    /\ UNCHANGED <<playlist, nfetch>>
    /\ UNCHANGED NotHls

\* a loop that returns after its first sleep instead of refreshing
SleepThenReturn ==
    /\ hpc = "sleep"
    /\ hpc' = "done"
    /\ hret' = "HLS_OK"
    /\ hlast' = [NoOp EXCEPT !.op = "sleep"]
    /\ UNCHANGED <<playlist, i, last_count, last_processed_url, nfetch, delivered, example>>
    /\ UNCHANGED NotHls

\* usleep(500000) at the end of the while body, then the next iteration
Sleep ==
    /\ hpc = "sleep"
    /\ hpc' = "fetch"
    /\ hlast' = [NoOp EXCEPT !.op = "sleep"]
    /\ UNCHANGED <<playlist, i, last_count, last_processed_url, hret, nfetch, delivered, example>>
    /\ UNCHANGED NotHls

HlsNext ==
    \/ PlaylistFetchFail
    \/ PlaylistNoMem
    \/ PlaylistFetchOk
    \/ SegmentNoMem
    \/ SegmentFetchFail
    \/ SegmentFetchOk
    \/ Sleep

\* ========================================================================
\* The H.264 state machines: simple_h264_decode (simple_h264.c) and
\* openh264_decode_nal / openh264_decoder_reset (openh264_decoder.c)
\* ========================================================================

\* result codes of simple_h264.h and openh264_decoder.h
SIMPLE_H264_OK == "SIMPLE_H264_OK"
SIMPLE_H264_ERROR == "SIMPLE_H264_ERROR"
SIMPLE_H264_FRAME_READY == "SIMPLE_H264_FRAME_READY"
SIMPLE_H264_HEADERS_READY == "SIMPLE_H264_HEADERS_READY"
SIMPLE_H264_PARAM_SET_ERROR == "SIMPLE_H264_PARAM_SET_ERROR"
OPENH264_SUCCESS == "OPENH264_SUCCESS"
OPENH264_ERROR == "OPENH264_ERROR"
OPENH264_HDRS_RDY == "OPENH264_HDRS_RDY"
OPENH264_PIC_RDY == "OPENH264_PIC_RDY"
OPENH264_PARAM_SET_ERROR == "OPENH264_PARAM_SET_ERROR"

NAL_SLICE == 1
NAL_IDR_SLICE == 5
NAL_SEI == 6
NAL_SPS == 7
NAL_PPS == 8
NAL_AUD == 9

\* sizeof(sps_data), sizeof(pps_data) of param_sets_t
SpsDataSize == 256
PpsDataSize == 64

Pow2(n) == 2 ^ n

Least(S) == CHOOSE a \in S : \A c \in S : a <= c

\* data[0] & 0x1F
simple_h264_get_nal_type(data) == data[1] % 32

\* ptr[k] for a pointer p bytes into data; reads stay inside data because
\* bits_left never exceeds the bits that follow ptr
ByteAt(data, k) == IF k < Len(data) THEN data[k + 1] ELSE 0

\* (byte >> (7 - (bit_pos % 8))) & 1 of the byte ptr[bit_pos / 8]
BitAt(data, p, bit_pos) ==
    (ByteAt(data, p + (bit_pos \div 8)) \div Pow2(7 - (bit_pos % 8))) % 2

\* the first set bit of the byte ptr[k], as a bit position
FirstSetBit(data, p, k) ==
    8 * k + (CHOOSE a \in 0..7 : /\ BitAt(data, p, 8 * k + a) = 1
                                /\ \A c \in 0..(a - 1) : BitAt(data, p, 8 * k + c) = 0)

\* where the loop stops, given the bytes nz below bits_left that hold a set bit
ZerosBefore(data, p, bits_left, nz) ==
    IF nz = {} THEN bits_left ELSE Min(FirstSetBit(data, p, Least(nz)), bits_left)

\* the "count leading zeros" loop: the first set bit below bits_left, or
\* bits_left when there is none
LeadingZeros(data, p, bits_left) ==
    ZerosBefore(data, p, bits_left,
                {k \in 0..((bits_left + 7) \div 8 - 1) : ByteAt(data, p + k) # 0})

\* the "read the remaining bits" loop: n bits from bit position from on
RECURSIVE ReadBits(_, _, _, _)
ReadBits(data, p, from, n) ==
    IF n = 0 THEN 0
    ELSE 2 * ReadBits(data, p, from, n - 1) + BitAt(data, p, from + n - 1)

\* a read that moves the pointer to the byte behind the code's last bit
UeCodeRoundUp(data, p, bits_left, lz) ==
    IF bits_left = 0 \/ 2 * lz + 1 > bits_left
    THEN [val |-> 0, ptr |-> p, bits_left |-> bits_left, ub |-> FALSE]
    ELSE [val |-> 0, ptr |-> p + ((2 * lz + 8) \div 8),
          bits_left |-> bits_left - (2 * lz + 1), ub |-> lz >= 31]

\* read_ue_golomb after the leading zeros are counted: bit_pos ends at
\* 2 * leading_zeros + 1 unless the code does not fit into bits_left
UeCode(data, p, bits_left, lz) ==
    IF bits_left = 0 \/ 2 * lz + 1 > bits_left
    THEN [val |-> 0, ptr |-> p, bits_left |-> bits_left, ub |-> FALSE]
    ELSE IF lz >= 31
    THEN [val |-> 0, ptr |-> p + ((2 * lz + 1) \div 8),
          bits_left |-> bits_left - (2 * lz + 1), ub |-> TRUE]
    ELSE [val |-> Pow2(lz) - 1 + ReadBits(data, p, lz + 1, lz),
          ptr |-> p + ((2 * lz + 1) \div 8),
          bits_left |-> bits_left - (2 * lz + 1), ub |-> FALSE]

\* read_ue_golomb: the value, and the pointer and bit budget it leaves behind.
\* The pointer advances by whole bytes (bit_pos / 8) while bits_left drops by
\* bit_pos, so the next code is read from the start of a byte again.
\* "ub" marks 1 << leading_zeros with a shift count the C type cannot hold.
read_ue_golomb(data, p, bits_left) ==
    UeCode(data, p, bits_left, LeadingZeros(data, p, bits_left))

\* width_mbs * 16 in uint32_t
Times16(mbs) == (mbs % Pow2(28)) * 16

\* a read that follows earlier reads: undefined behaviour of any of them stays
JoinUb(n, ub) == [n EXCEPT !.ub = @ \/ ub]

\* read_ue_golomb(&ptr, &bits_left) where the read r left ptr and bits_left
NextUe(data, r) == JoinUb(read_ue_golomb(data, r.ptr, r.bits_left), r.ub)

\* if (poc_type == 0) read log2_max_pic_order_cnt_lsb_minus4
PocLsb(data, r3) == IF r3.val = 0 THEN NextUe(data, r3) ELSE r3

\* "skip gaps_in_frame_num_value_allowed_flag": on to the next whole byte
SkipGapsFlag(r5) ==
    [r5 EXCEPT !.ptr = IF r5.bits_left > 0 /\ r5.bits_left % 8 # 0 THEN @ + 1 ELSE @,
               !.bits_left = @ - (@ % 8)]

\* decoder->width and decoder->height from the two reads
Dimensions(rw, rh) ==
    [width |-> Times16(rw.val + 1), height |-> Times16(rh.val + 1), ub |-> rh.ub]

\* the baseline branch after seq_parameter_set_id (r1): log2_max_frame_num_minus4,
\* pic_order_cnt_type, max_num_ref_frames, then width and height in macroblocks
WidthRead(data, r1) ==
    NextUe(data, SkipGapsFlag(NextUe(data, PocLsb(data, NextUe(data, NextUe(data, r1))))))

BaselineDimensions(data, rw) == Dimensions(rw, NextUe(data, rw))

SpsFields(data, dim) ==
    [ok |-> TRUE, profile_idc |-> data[2], level_idc |-> data[4],
     width |-> dim.width, height |-> dim.height, ub |-> dim.ub]

\* parse_sps after seq_parameter_set_id is read
SpsAfterId(data, r1) ==
    IF data[2] = 66
    THEN SpsFields(data, BaselineDimensions(data, WidthRead(data, r1)))
    ELSE SpsFields(data, [width |-> 1920, height |-> 1080, ub |-> r1.ub])

\* parse_sps: 0 when size < 4, else the fields it stores in the decoder
parse_sps(data) ==
    IF Len(data) < 4 THEN [ok |-> FALSE]
    ELSE SpsAfterId(data, read_ue_golomb(data, 4, (Len(data) - 1) * 8 - 24))

\* 16x16 -> 32 bit product as two 16-bit halves (keeps every intermediate
\* value below 2^31)
Mul16(x, y) ==
    LET t1 == (x \div 256) * y
        t0 == (x % 256) * y
        s == (t1 % 256) * 256 + t0
    IN [hi |-> ((s \div 65536) + (t1 \div 256)) % 65536, lo |-> s % 65536]

\* a * b in uint32_t, as two 16-bit halves
Mul32(a, b) ==
    LET p == Mul16(a % 65536, b % 65536)
        c1 == Mul16((a \div 65536) % 65536, b % 65536).lo
        c2 == Mul16(a % 65536, (b \div 65536) % 65536).lo
    IN [hi |-> (p.hi + c1 + c2) % 65536, lo |-> p.lo]

\* size_t needed_size = decoder->width * decoder->height * 3 / 2, the product
\* being computed in uint32_t
NeededSize(w, h) ==
    LET wh == Mul32(w, h)
        p == Mul16(wh.lo, 3)
        hi == (p.hi + wh.hi * 3) % 65536
    IN hi * 32768 + (p.lo \div 2)

\* the planes written for a w x h picture need w*h*3/2 bytes; the uint32_t
\* product w*h*3 wrapped iff w*h >= ceil(2^32 / 3)
SizeWrapped(w, h) == w > 0 /\ h > 1431655765 \div w

NoFrame == [width |-> 0, height |-> 0, set |-> FALSE]

NoCall == [op |-> "none", nal |-> <<>>, frame_out |-> FALSE, malloc_ok |-> TRUE, result |-> "none", frame |-> NoFrame]

\* ---- NAL units fed to the decoders (bytes in decimal) ----
SpsShort == <<103, 170>>                                   \* 67 AA
SpsHigh == <<103, 100, 0, 31, 172>>                        \* profile 100
SpsBaseline == <<103, 66, 0, 30, 248, 10, 11, 64>>         \* profile 66, 320x352
SpsWide == <<103, 66, 0, 30, 255, 5, 0, 30, 0, 0>>         \* profile 66, 640x61440
SpsZeroWidth == <<103, 66, 0, 30, 255, 0, 0, 0, 8, 0, 0, 0, 0, 255, 0>>   \* pic_width_in_mbs_minus1 = 2^28 - 1
SpsHuge == <<103, 66, 0, 30, 255, 0, 8, 0, 0, 8, 0, 0, 0, 0>>             \* 65536x65536
SpsOversize == [k \in 1..SpsDataSize |-> IF k = 1 THEN 103 ELSE IF k = 2 THEN 100 ELSE 0]
PpsShort == <<104, 187>>                                   \* 68 BB
PpsOversize == [k \in 1..PpsDataSize |-> IF k = 1 THEN 104 ELSE 0]
IdrSlice == <<101, 136>>                                   \* 65 88
PSlice == <<65, 154>>                                      \* 41 9A
SeiUnit == <<6, 5>>
AudUnit == <<9, 240>>
FillerUnit == <<12, 255>>

TestNals == {SpsShort, SpsHigh, SpsBaseline, SpsWide, SpsZeroWidth, SpsHuge, SpsOversize,
             PpsShort, PpsOversize, IdrSlice, PSlice, SeiUnit, AudUnit, FillerUnit}

IsSlice(data) ==
    Len(data) > 0 /\ simple_h264_get_nal_type(data) \in {NAL_SLICE, NAL_IDR_SLICE}

\* ---- simple_h264.c ----
\* calloc(1, sizeof(simple_h264_decoder_t))
simple_h264_create ==
    [width |-> 0, height |-> 0, profile_idc |-> 0, level_idc |-> 0,
     sps_valid |-> 0, pps_valid |-> 0, frame_buffer |-> NULL, frame_buffer_size |-> 0]

\* a slice is refused unless the SPS flag alone is set
SpsMissing(dec) == dec.sps_valid = 0

\* !decoder->sps_valid || !decoder->pps_valid
ParamSetsMissing(dec) == dec.sps_valid = 0 \/ dec.pps_valid = 0

\* "allocate frame buffer if needed"
AllocFrameBuffer(dec, needed_size, malloc_ok) ==
    IF dec.frame_buffer = NULL \/ dec.frame_buffer_size < needed_size
    THEN [dec EXCEPT !.frame_buffer = IF malloc_ok THEN "heap" ELSE NULL,
                     !.frame_buffer_size = needed_size]
    ELSE dec

\* the test pattern and the frame structure, if there is a buffer
FillFrame(d2) ==
    IF d2.frame_buffer # NULL
    THEN [decoder |-> d2, result |-> SIMPLE_H264_FRAME_READY,
          frame |-> [width |-> d2.width, height |-> d2.height, set |-> TRUE],
          ub |-> SizeWrapped(d2.width, d2.height)]
    ELSE [decoder |-> d2, result |-> SIMPLE_H264_OK, frame |-> NoFrame, ub |-> FALSE]

\* the slice branch once the parameter sets are present
DecodeSlice(dec, frame_out, malloc_ok) ==
    IF frame_out /\ dec.width > 0 /\ dec.height > 0
    THEN FillFrame(AllocFrameBuffer(dec, NeededSize(dec.width, dec.height), malloc_ok))
    ELSE [decoder |-> dec, result |-> SIMPLE_H264_OK, frame |-> NoFrame, ub |-> FALSE]

\* the SPS branch, given what parse_sps returned
SpsBranch(dec, s) ==
    IF s.ok
    THEN [decoder |-> [dec EXCEPT !.profile_idc = s.profile_idc, !.level_idc = s.level_idc,
                                  !.width = s.width, !.height = s.height, !.sps_valid = 1],
          result |-> SIMPLE_H264_HEADERS_READY, frame |-> NoFrame, ub |-> s.ub]
    ELSE [decoder |-> dec, result |-> SIMPLE_H264_PARAM_SET_ERROR, frame |-> NoFrame, ub |-> FALSE]

\* simple_h264_decode(decoder, data, data_size, frame): the decoder afterwards,
\* the result code and what was written to *frame. "ub" tells that the call
\* wrote the picture planes past the end of a frame buffer whose size wrapped,
\* or shifted by more than the width of int.
simple_h264_decode(dec, data, frame_out, malloc_ok) ==
    IF Len(data) = 0
    THEN [decoder |-> dec, result |-> SIMPLE_H264_ERROR, frame |-> NoFrame, ub |-> FALSE]
    ELSE
    LET nal_type == simple_h264_get_nal_type(data) IN
    CASE nal_type = NAL_SPS ->
           SpsBranch(dec, parse_sps(data))
      [] nal_type = NAL_PPS ->
           [decoder |-> [dec EXCEPT !.pps_valid = 1],
            result |-> SIMPLE_H264_HEADERS_READY, frame |-> NoFrame, ub |-> FALSE]
      [] nal_type \in {NAL_SLICE, NAL_IDR_SLICE} ->
           IF ParamSetsMissing(dec)
           THEN [decoder |-> dec, result |-> SIMPLE_H264_PARAM_SET_ERROR, frame |-> NoFrame, ub |-> FALSE]
           ELSE DecodeSlice(dec, frame_out, malloc_ok)
      [] OTHER ->
           [decoder |-> dec, result |-> SIMPLE_H264_OK, frame |-> NoFrame, ub |-> FALSE]

\* ---- openh264_decoder.c ----
\* calloc of the context in openh264_decoder_init
openh264_decoder_init ==
    [sps_valid |-> 0, sps_len |-> 0, pps_valid |-> 0, pps_len |-> 0,
     width |-> 0, height |-> 0, frame_ready |-> 0, current_frame |-> NoFrame]

\* parse_sps_dimensions: 1280x720 is assumed for an SPS of at least 10 bytes
parse_sps_dimensions(c, len) ==
    IF len < 10 THEN c ELSE [c EXCEPT !.width = 1280, !.height = 720]

\* openh264_has_param_sets
openh264_has_param_sets(c) == c.sps_valid # 0 /\ c.pps_valid # 0

\* generate_test_frame(ctx, ctx->param_sets.width, ctx->param_sets.height)
generate_test_frame(c) ==
    [c EXCEPT !.current_frame = [width |-> c.width, height |-> c.height, set |-> TRUE],
              !.frame_ready = 1]

\* openh264_decode_nal(ctx, nal_data, nal_len, frame_out)
openh264_decode_nal(c, data, frame_out) ==
    IF Len(data) = 0
    THEN [ctx |-> c, result |-> OPENH264_ERROR, frame |-> NoFrame]
    ELSE
    LET nal_type == data[1] % 32 IN
    CASE nal_type = NAL_SPS ->
           [ctx |-> IF Len(data) < SpsDataSize
                    THEN parse_sps_dimensions([c EXCEPT !.sps_len = Len(data), !.sps_valid = 1], Len(data))
                    ELSE c,
            result |-> OPENH264_HDRS_RDY, frame |-> NoFrame]
      [] nal_type = NAL_PPS ->
           [ctx |-> IF Len(data) < PpsDataSize
                    THEN [c EXCEPT !.pps_len = Len(data), !.pps_valid = 1]
                    ELSE c,
            result |-> OPENH264_HDRS_RDY, frame |-> NoFrame]
      [] nal_type \in {NAL_SLICE, NAL_IDR_SLICE} ->
           IF ~openh264_has_param_sets(c)
           THEN [ctx |-> c, result |-> OPENH264_PARAM_SET_ERROR, frame |-> NoFrame]
           ELSE LET g == generate_test_frame(c) IN
                IF frame_out
                THEN [ctx |-> [g EXCEPT !.frame_ready = 0], result |-> OPENH264_PIC_RDY,
                      frame |-> g.current_frame]
                ELSE [ctx |-> g, result |-> OPENH264_SUCCESS, frame |-> NoFrame]
      [] OTHER ->
           [ctx |-> c, result |-> OPENH264_SUCCESS, frame |-> NoFrame]

\* openh264_decoder_reset: memset(&ctx->param_sets, 0, ...); frame_ready = 0
openh264_decoder_reset(c) ==
    [c EXCEPT !.sps_valid = 0, !.sps_len = 0, !.pps_valid = 0, !.pps_len = 0,
              !.width = 0, !.height = 0, !.frame_ready = 0]

DecInit ==
    /\ codec \in {"simple_h264", "openh264"}
    /\ dpc = "run"
    /\ decoder = simple_h264_create
    /\ ctx = openh264_decoder_init
    /\ dlast = NoCall

\* what a call of simple_h264_decode leaves behind; a call with undefined
\* behaviour may take the process down instead of returning
SimpleReturn(data, frame_out, malloc_ok, survives, r) ==
    /\ decoder' = r.decoder
    /\ IF r.ub /\ ~survives
       THEN /\ dpc' = "crashed"
            /\ dlast' = [op |-> "simple_h264_decode", nal |-> data, frame_out |-> frame_out,
                         malloc_ok |-> malloc_ok, result |-> "crash", frame |-> NoFrame]
       ELSE /\ dpc' = dpc
            /\ dlast' = [op |-> "simple_h264_decode", nal |-> data, frame_out |-> frame_out,
                         malloc_ok |-> malloc_ok, result |-> r.result, frame |-> r.frame]

\* one call of simple_h264_decode
SimpleDecode ==
    /\ codec = "simple_h264"
    /\ dpc = "run"
    /\ \E data \in TestNals \cup {<<>>}, frame_out \in BOOLEAN, malloc_ok \in BOOLEAN, survives \in BOOLEAN :
         SimpleReturn(data, frame_out, malloc_ok, survives,
                      simple_h264_decode(decoder, data, frame_out, malloc_ok))
    /\ UNCHANGED <<codec, ctx>>
    /\ UNCHANGED NotDec

\* one call of openh264_decode_nal
OpenH264Decode ==
    /\ codec = "openh264"
    /\ dpc = "run"
    /\ \E data \in TestNals \cup {<<>>}, frame_out \in BOOLEAN :
         LET r == openh264_decode_nal(ctx, data, frame_out) IN
         /\ ctx' = r.ctx
         /\ dlast' = [op |-> "openh264_decode_nal", nal |-> data, frame_out |-> frame_out,
                      malloc_ok |-> TRUE, result |-> r.result, frame |-> r.frame]
    /\ UNCHANGED <<codec, dpc, decoder>>
    /\ UNCHANGED NotDec

\* one call of openh264_decoder_reset
OpenH264Reset ==
    /\ codec = "openh264"
    /\ dpc = "run"
    /\ ctx' = openh264_decoder_reset(ctx)
    /\ dlast' = [NoCall EXCEPT !.op = "openh264_decoder_reset"]
    /\ UNCHANGED <<codec, dpc, decoder>>
    /\ UNCHANGED NotDec

DecNext ==
    \/ SimpleDecode
    \/ OpenH264Decode
    \/ OpenH264Reset

\* ========================================================================
\* Frame pacing and frame skip: the FFmpeg decode loop of main() (main.c),
\* the same loop of the older main (part_004) and the frame-ready branch of
\* process_h264_nal_unit (main.c, HLS path)
\* ========================================================================
FRAMESKIP_AMOUNT == 3
frame_duration_us == 33333

\* longest run of frame-ready events
MaxFrames == 8

\* time that passes between two frame-ready events (microseconds)
Delays == {0, 20000, 40000}

\* get_time_us() when playback starts
StartTime == 1000000

Players == {"ffmpeg", "ffmpeg_legacy", "hls"}

\* if (FRAMESKIP_AMOUNT > 0 && skip_remaining > 0), read one frame late
SkipDueLate(skip) == FRAMESKIP_AMOUNT > 0 /\ skip > 1

\* a test that lets the counter be decremented once more at 0
SkipDueAtZero(skip) == FRAMESKIP_AMOUNT > 0 /\ skip >= 0

\* if (FRAMESKIP_AMOUNT > 0 && skip_remaining > 0)
SkipDue(skip) == FRAMESKIP_AMOUNT > 0 /\ skip > 0

\* a skipped frame that moves the timeline by two frame durations
AfterSkipTwice(t) == t + 2 * frame_duration_us

\* last_frame_time += frame_duration_us (main.c only)
AfterSkip(t) == t + frame_duration_us

\* elapsed = current_time - last_frame_time is computed in uint64_t: when
\* last_frame_time is ahead of the clock the difference wraps to a value far
\* above frame_duration_us, so "elapsed < frame_duration_us" is false
ElapsedBelowFrame(current_time, last) ==
    current_time >= last /\ current_time - last < frame_duration_us

\* the usleep of the two FFmpeg loops: only between 1 ms and 50 ms
SleepFFmpeg(current_time, last) ==
    IF ElapsedBelowFrame(current_time, last)
    THEN LET sleep_time == frame_duration_us - (current_time - last)
         IN IF sleep_time > 1000 /\ sleep_time < 50000 THEN sleep_time ELSE 0
    ELSE 0

\* the usleep of process_h264_nal_unit
SleepHls(t, last) ==
    IF ElapsedBelowFrame(t, last) THEN frame_duration_us - (t - last) ELSE 0

PaceInit ==
    /\ player \in Players
    /\ skip_remaining = 0
    /\ frames_displayed = 0
    /\ frames_dropped = 0
    /\ clock = StartTime
    /\ last_frame_time = IF player = "hls" THEN 0 ELSE StartTime
    /\ should_quit = FALSE
    /\ events = <<>>
    /\ disturbed = FALSE

\* main.c: one decoded frame received in the playback loop
FrameReadyFFmpeg ==
    /\ player = "ffmpeg"
    /\ ~should_quit
    /\ Len(events) < MaxFrames
    /\ \E delay \in Delays, render_ok \in BOOLEAN, poll \in {"none", "first", "second"} :
         LET current_time == clock + delay IN
         IF SkipDue(skip_remaining)
         THEN /\ frames_dropped' = frames_dropped + 1
              /\ skip_remaining' = skip_remaining - 1
              /\ last_frame_time' = AfterSkip(last_frame_time)
              /\ clock' = current_time
              /\ events' = Append(events, "drop")
              /\ UNCHANGED <<frames_displayed, should_quit, disturbed>>
         ELSE LET woke == current_time + SleepFFmpeg(current_time, last_frame_time) IN
              /\ clock' = woke
              /\ last_frame_time' = woke
              /\ UNCHANGED frames_dropped
              /\ IF ~render_ok
                 THEN \* sws context, RGB buffer or video output cannot be set up: break
                      /\ events' = Append(events, "none")
                      /\ disturbed' = TRUE
                      /\ UNCHANGED <<frames_displayed, skip_remaining, should_quit>>
                 ELSE /\ events' = Append(events, "displayed")
                      /\ frames_displayed' = frames_displayed + 1
                      /\ UNCHANGED disturbed
                      /\ IF poll = "first"
                         THEN should_quit' = TRUE /\ UNCHANGED skip_remaining
                         ELSE /\ skip_remaining' = FRAMESKIP_AMOUNT
                              /\ should_quit' = (poll = "second" /\ (frames_displayed + 1) % 5 = 0)
    /\ UNCHANGED player
    /\ UNCHANGED NotPace

\* part_004: a non-key packet read while skip_remaining > 0 is dropped undecoded
PacketDropLegacy ==
    /\ player = "ffmpeg_legacy"
    /\ ~should_quit
    /\ Len(events) < MaxFrames
    /\ SkipDue(skip_remaining)
    /\ frames_dropped' = frames_dropped + 1
    /\ skip_remaining' = skip_remaining - 1
    /\ disturbed' = TRUE
    /\ UNCHANGED <<player, frames_displayed, clock, last_frame_time, should_quit, events>>
    /\ UNCHANGED NotPace

\* part_004: one decoded frame received in the playback loop
FrameReadyLegacy ==
    /\ player = "ffmpeg_legacy"
    /\ ~should_quit
    /\ Len(events) < MaxFrames
    /\ \E delay \in Delays, poll \in BOOLEAN :
         LET current_time == clock + delay IN
         IF SkipDue(skip_remaining)
         THEN /\ frames_dropped' = frames_dropped + 1
              /\ skip_remaining' = skip_remaining - 1
              /\ clock' = current_time
              /\ events' = Append(events, "drop")
              /\ UNCHANGED <<frames_displayed, last_frame_time, should_quit>>
         ELSE LET woke == current_time + SleepFFmpeg(current_time, last_frame_time) IN
              /\ clock' = woke
              /\ last_frame_time' = woke
              /\ events' = Append(events, "displayed")
              /\ frames_displayed' = frames_displayed + 1
              /\ skip_remaining' = FRAMESKIP_AMOUNT
              /\ should_quit' = (poll /\ (frames_displayed + 1) % 5 = 0)
              /\ UNCHANGED frames_dropped
    /\ UNCHANGED <<player, disturbed>>
    /\ UNCHANGED NotPace

\* main.c, process_h264_nal_unit: the decoder returned SIMPLE_H264_FRAME_READY
FrameReadyHls ==
    /\ player = "hls"
    /\ ~should_quit
    /\ Len(events) < MaxFrames
    /\ \E delay \in Delays, render_ok \in BOOLEAN, poll \in BOOLEAN :
         LET t == clock + delay IN
         IF ~render_ok
         THEN \* init_video_output or malloc of rgb_buffer fails: return 0
              /\ clock' = t
              /\ events' = Append(events, "none")
              /\ disturbed' = TRUE
              /\ UNCHANGED <<frames_displayed, last_frame_time, should_quit>>
         ELSE LET woke == t + SleepHls(t, last_frame_time) IN
              /\ frames_displayed' = frames_displayed + 1
              /\ events' = Append(events, "displayed")
              /\ clock' = woke
              /\ last_frame_time' = woke
              /\ should_quit' = poll
              /\ UNCHANGED disturbed
    /\ UNCHANGED <<player, skip_remaining, frames_dropped>>
    /\ UNCHANGED NotPace

PaceNext ==
    \/ FrameReadyFFmpeg
    \/ PacketDropLegacy
    \/ FrameReadyLegacy
    \/ FrameReadyHls

\* ========================================================================
\* NAL extraction in hls_segment_callback (main.c): the Annex-B scan, the
\* length-prefixed scan, and the two passes that hand the units to
\* process_h264_nal_unit
\* ========================================================================
\* callbacks and flushes in one run
MaxCalls == 2

\* p[k] for a 0-based offset k
B(buf, k) == buf[k + 1]

Max(a, b) == IF a > b THEN a ELSE b

\* p[0] == 0 && p[1] == 0 && p[2] == 1
IsStartCode3(buf, p) == B(buf, p) = 0 /\ B(buf, p + 1) = 0 /\ B(buf, p + 2) = 1

\* p + 4 < e && p[0] == 0 && p[1] == 0 && p[2] == 0 && p[3] == 1
IsStartCode4(buf, p) ==
    p + 4 < Len(buf) /\ B(buf, p) = 0 /\ B(buf, p + 1) = 0 /\ B(buf, p + 2) = 0 /\ B(buf, p + 3) = 1

\* the offsets p >= from with p + 3 < e at which the scan loops stop
StartCodesFrom(buf, from) ==
    {p \in from..(Len(buf) - 4) : IsStartCode3(buf, p) \/ IsStartCode4(buf, p)}

\* for (next = start; next + 3 < e; ++next) { break at a start code }: where the
\* loop leaves next. Without a further start code it stops at e - 3, or does
\* not move at all when start + 3 >= e.
FindNext(buf, start) ==
    LET S == StartCodesFrom(buf, start)
    IN IF S # {} THEN Least(S) ELSE Max(start, Len(buf) - 3)

\* the while (s + 3 < e) loop of either pass: the byte ranges [start, next)
\* with nal_len > 0, in scan order
RECURSIVE AnnexBScan(_, _)
AnnexBScan(buf, s) ==
    IF ~(s + 3 < Len(buf)) \/ StartCodesFrom(buf, s) = {}
    THEN <<>>
    ELSE LET sc == Least(StartCodesFrom(buf, s))
             start == IF B(buf, sc + 2) = 1 THEN sc + 3 ELSE sc + 4
             next == FindNext(buf, start)
             unit == IF next - start > 0 THEN <<SubSeq(buf, start + 1, next)>> ELSE <<>>
         IN unit \o AnnexBScan(buf, next)

\* the NAL units the Annex-B loops find in a payload
AnnexBUnits(buf) == AnnexBScan(buf, 0)

\* the "quick scan for Annex-B start codes" of the PES flush
HasStartCodes(buf) == \E p \in 0..(Len(buf) - 4) : IsStartCode3(buf, p)

\* the while (p + 4 <= e) loop of the length-prefixed passes; a length whose
\* upper two bytes are set exceeds every payload and ends the loop
RECURSIVE LengthPrefixedScan(_, _)
LengthPrefixedScan(buf, p) ==
    IF ~(p + 4 <= Len(buf)) THEN <<>>
    ELSE LET nal_len == B(buf, p + 2) * 256 + B(buf, p + 3)
         IN IF B(buf, p) # 0 \/ B(buf, p + 1) # 0 \/ nal_len = 0 \/ p + 4 + nal_len > Len(buf)
            THEN <<>>
            ELSE <<SubSeq(buf, p + 5, p + 4 + nal_len)>> \o LengthPrefixedScan(buf, p + 4 + nal_len)

LengthPrefixedUnits(buf) == LengthPrefixedScan(buf, 0)

\* simple_h264_is_parameter_set(get_nal_unit_type(nal, len))
is_parameter_set(nal) == simple_h264_get_nal_type(nal) \in {NAL_SPS, NAL_PPS}

\* what happens around the callback: allocations, video set-up, the user
NalEnvs == [malloc_ok : BOOLEAN, render_ok : BOOLEAN, poll : {"no", "entry", "in_unit", "in_caller"}]

\* running state of one callback; asked: process_h264_nal_unit has set
\* should_quit_hls in this call, late: units it was handed after that
CallState(dec, vid, quit) ==
    [decoder |-> dec, video |-> vid, quit |-> quit, delivered |-> <<>>, shown |-> 0,
     drawn |-> FALSE, stop |-> FALSE, ret |-> 0, ub |-> FALSE, asked |-> FALSE, late |-> 0]

\* a frame the HLS path draws: SIMPLE_H264_FRAME_READY with width and height
FrameToDraw(r) == r.result = SIMPLE_H264_FRAME_READY /\ r.frame.width > 0 /\ r.frame.height > 0

\* process_h264_nal_unit after the decoder returned r; drawn: the frame was rendered
UnitDone(st, nal, env, r, drawn) ==
    [st EXCEPT !.decoder = r.decoder,
               !.delivered = Append(@, nal),
               !.shown = IF drawn THEN @ + 1 ELSE @,
               !.video = @ \/ drawn,
               !.quit = @ \/ (drawn /\ env.poll = "in_unit"),
               !.ub = @ \/ r.ub,
               !.drawn = drawn,
               !.asked = @ \/ (drawn /\ env.poll = "in_unit"),
               !.late = IF st.asked THEN @ + 1 ELSE @]

UnitDecoded(st, nal, env, r) == UnitDone(st, nal, env, r, FrameToDraw(r) /\ env.render_ok)

\* process_h264_nal_unit: decode the unit; draw the frame if one is ready
process_h264_nal_unit(st, nal, env) ==
    UnitDecoded(st, nal, env, simple_h264_decode(st.decoder, nal, TRUE, env.malloc_ok))

\* after a unit of the second pass was drawn: the caller polls for quit
\* (fallback and PES flush), and the fallback loop ends at the first picture
AfterDrawn(st, variant, env) ==
    IF ~st.drawn THEN st
    ELSE IF variant # "final" /\ env.poll = "in_caller"
    THEN [st EXCEPT !.quit = TRUE, !.ret = 1, !.stop = TRUE]
    ELSE IF variant = "fallback" THEN [st EXCEPT !.stop = TRUE]
    ELSE st

\* first pass: the parameter sets, in scan order
RECURSIVE ParamSetPass(_, _, _)
ParamSetPass(st, units, env) ==
    IF units = <<>> THEN st
    ELSE ParamSetPass(IF is_parameter_set(Head(units))
                      THEN process_h264_nal_unit(st, Head(units), env)
                      ELSE st,
                      Tail(units), env)

\* second pass: every other unit, in scan order
RECURSIVE OtherUnitsPass(_, _, _, _)
OtherUnitsPass(st, units, variant, env) ==
    IF units = <<>> \/ st.stop THEN st
    ELSE OtherUnitsPass(IF is_parameter_set(Head(units))
                        THEN st
                        ELSE AfterDrawn(process_h264_nal_unit(st, Head(units), env), variant, env),
                        Tail(units), variant, env)

\* both passes over the units of a payload
TwoPasses(st, units, variant, env) ==
    OtherUnitsPass(ParamSetPass(st, units, env), units, variant, env)

\* the units a payload is split into: Annex-B when start codes are present
\* (the fallback path knows no other format), else length-prefixed in the
\* PES flush inside the packet loop, else nothing
UnitsOf(buf, variant) ==
    IF variant = "fallback" THEN AnnexBUnits(buf)
    ELSE IF HasStartCodes(buf) THEN AnnexBUnits(buf)
    ELSE IF variant = "pes" THEN LengthPrefixedUnits(buf)
    ELSE <<>>

\* the whole-buffer feed after the decoder returned r
WholeDone(st, variant, env, r, ready, drawn, quit) ==
    [st EXCEPT !.decoder = r.decoder,
               !.shown = IF drawn THEN @ + 1 ELSE @,
               !.video = @ \/ drawn,
               !.ub = @ \/ r.ub,
               !.quit = @ \/ quit,
               !.ret = IF variant = "fallback" /\ ready /\ ~env.render_ok THEN -1
                       ELSE IF quit THEN 1 ELSE 0,
               !.stop = quit \/ (variant = "fallback" /\ ready)]

WholeDecoded(st, variant, env, r) ==
    WholeDone(st, variant, env, r, FrameToDraw(r), FrameToDraw(r) /\ env.render_ok,
              FrameToDraw(r) /\ env.render_ok /\ env.poll \in {"in_unit", "in_caller"})

\* simple_h264_decode on the whole buffer (the segment at the top of the
\* callback, the assembled PES payload in the flush) and the drawing of the
\* frame it may return. The callback returns -1 when the video output or the
\* RGB buffer cannot be set up and ends after a picture; the flush goes on.
WholeFeed(st, buf, variant, env) ==
    WholeDecoded(st, variant, env, simple_h264_decode(st.decoder, buf, TRUE, env.malloc_ok))

\* ---- payloads ----
Sc3 == <<0, 0, 1>>
Sc4 == <<0, 0, 0, 1>>
Pad3 == <<255, 255, 255>>
Pieces == {Sc3, Sc4, SpsShort, PpsShort, IdrSlice, Pad3}

\* 00 00 01 67 AA 00 00 01 68 BB
ExamplePayload == Sc3 \o SpsShort \o Sc3 \o PpsShort

NamedPayloads ==
    { ExamplePayload,
      ExamplePayload \o Pad3,
      Sc4 \o SpsHigh \o Sc4 \o PpsShort \o Sc3 \o IdrSlice \o Pad3,
      Sc3 \o IdrSlice \o Sc4 \o SpsHigh \o Sc3 \o PpsShort \o Sc3 \o PSlice \o Pad3,
      Sc3 \o SpsHigh \o Sc3 \o PpsShort \o Pad3,
      <<0, 0, 0, 5>> \o SpsHigh \o <<0, 0, 0, 2>> \o PpsShort \o <<0, 0, 0, 2>> \o IdrSlice,
      <<0, 0, 0, 2>> \o IdrSlice \o <<0, 0, 0, 9>> \o PpsShort,
      IdrSlice \o Pad3,
      <<0, 0, 0, 2>> \o SpsShort \o <<0, 0, 0, 0>> \o <<0, 0, 0, 2>> \o PpsShort,
      Sc4 \o IdrSlice \o Sc3 \o SpsHigh \o Sc3 \o PpsShort,
      <<>> }

\* every payload put together from one or two pieces
GeneratedPayloads == Pieces \cup {a \o b : a \in Pieces, b \in Pieces}

Payloads == NamedPayloads \cup GeneratedPayloads

NoSegment == [op |-> "none", payload |-> <<>>, delivered |-> <<>>, shown |-> 0, ret |-> 0, late |-> 0]

NalInit ==
    /\ video = FALSE
    /\ ncalls = 0
    /\ nlast = NoSegment

\* what the decoder calls and the drawing of a callback (or flush) leave in
\* the globals; a call with undefined behaviour may take the process down
Effects(st) ==
    /\ decoder' = st.decoder
    /\ video' = st.video
    /\ should_quit' = st.quit
    /\ frames_displayed' = frames_displayed + st.shown
    /\ clock' = IF st.shown = 0 THEN clock
                ELSE clock + SleepHls(clock, last_frame_time) + (st.shown - 1) * frame_duration_us
    /\ last_frame_time' = IF st.shown = 0 THEN last_frame_time ELSE clock'
    /\ dpc' \in IF st.ub THEN {dpc, "crashed"} ELSE {dpc}
    /\ UNCHANGED <<codec, ctx, dlast, player, skip_remaining, frames_dropped, events, disturbed>>
    /\ UNCHANGED <<hlsVars, textVars, memVars>>

\* the effects of a finished callback (or flush) on the program state
Finish(op, payload, st) ==
    /\ Effects(st)
    /\ ncalls' = ncalls + 1
    /\ nlast' = [op |-> op, payload |-> payload, delivered |-> st.delivered,
                 shown |-> st.shown, ret |-> st.ret, late |-> st.late]
    /\ UNCHANGED tsVars

\* the NAL passes follow the whole-buffer feed unless that ended the call
AfterWholeFeed(op, payload, env, w) ==
    IF w.stop
    THEN Finish(op, payload, w)
    ELSE Finish(op, payload, TwoPasses(w, UnitsOf(payload, op), op, env))

\* the callback proper, entered with the state st0
SegmentBody(payload, env, st0) ==
    IF (video /\ env.poll = "entry") \/ should_quit
    THEN Finish("fallback", payload, [st0 EXCEPT !.quit = TRUE, !.ret = 1])
    ELSE AfterWholeFeed("fallback", payload, env, WholeFeed(st0, payload, "fallback", env))

\* hls_segment_callback for a segment that is not a transport stream; it is
\* called again only after it returned 0
FallbackSegment ==
    /\ dpc = "run"
    /\ ncalls < MaxCalls
    /\ nlast.ret = 0
    /\ \E payload \in Payloads \ {<<>>}, env \in NalEnvs :
         SegmentBody(payload, env, CallState(decoder, video, should_quit))

\* the flush of an assembled PES payload when the next PES starts
\* (inside the packet loop of the transport-stream branch)
PesFlush ==
    /\ dpc = "run"
    /\ ncalls < MaxCalls
    /\ nlast.ret = 0
    /\ \E payload \in Payloads \ {<<>>}, env \in NalEnvs :
         AfterWholeFeed("pes", payload, env,
                        WholeFeed(CallState(decoder, video, should_quit), payload, "pes", env))

\* the final flush of the PES buffer after the packet loop
FinalPesFlush ==
    /\ dpc = "run"
    /\ ncalls < MaxCalls
    /\ nlast.ret = 0
    /\ \E payload \in Payloads \ {<<>>}, env \in NalEnvs :
         Finish("final", payload,
                TwoPasses(CallState(decoder, video, should_quit),
                          UnitsOf(payload, "final"), "final", env))

NalNext ==
    \/ FallbackSegment
    \/ PesFlush
    \/ FinalPesFlush

\* ========================================================================
\* The transport-stream branch of hls_segment_callback (main.c): the packet
\* loop that assembles the PES payload of one video PID, and its flushes
\* ========================================================================
TS_PACKET_SIZE == 188
TS_SYNC_BYTE == 71

\* ---- the fields of a packet (pkt[k] of the code is pkt[k + 1] here) ----
\* (pkt[1] & 0x40) != 0
PayloadUnitStart(pkt) == (pkt[2] \div 64) % 2 = 1

\* ((pkt[1] & 0x1F) << 8) | pkt[2]
PidOf(pkt) == (pkt[2] % 32) * 256 + pkt[3]

\* (pkt[3] & 0x30) >> 4
AdaptationFieldControl(pkt) == (pkt[4] \div 16) % 4

\* an offset that leaves out the adaptation_field_length byte itself
PayloadOffsetNoLengthByte(pkt) == IF AdaptationFieldControl(pkt) = 3 THEN 4 + pkt[5] ELSE 4

\* 4, or 5 + af_len when an adaptation field is present
PayloadOffset(pkt) == IF AdaptationFieldControl(pkt) = 3 THEN 5 + pkt[5] ELSE 4

\* the "continue" statements at the head of the loop body
PacketSkipped(pkt) ==
    \/ pkt[1] # TS_SYNC_BYTE
    \/ AdaptationFieldControl(pkt) = 2
    \/ PayloadOffset(pkt) >= TS_PACKET_SIZE

\* payload, payload_len
PayloadOf(pkt) == SubSeq(pkt, PayloadOffset(pkt) + 1, TS_PACKET_SIZE)

\* payload[0] == 0x00 && payload[1] == 0x00 && payload[2] == 0x01
PesStartCode(payload) == payload[1] = 0 /\ payload[2] = 0 /\ payload[3] = 1

\* a detection that is made again at every PES start with stream_id 0xE?
DetectedPidAtEveryStart(vp, pkt, payload) ==
    IF /\ PayloadUnitStart(pkt)
       /\ Len(payload) >= 6
       /\ PesStartCode(payload)
       /\ payload[4] \div 16 = 14
    THEN PidOf(pkt)
    ELSE vp

\* the video PID after this packet: the first PES start with stream_id 0xE?
\* chooses it
DetectedPid(vp, pkt, payload) ==
    IF /\ vp = -1
       /\ PayloadUnitStart(pkt)
       /\ Len(payload) >= 6
       /\ PesStartCode(payload)
       /\ payload[4] \div 16 = 14
    THEN PidOf(pkt)
    ELSE vp

\* data_start = 9 + pes_header_data_len, read one byte early
DataStartNoLength(payload) == 9

\* data_start = 9 + pes_header_data_len
DataStart(payload) == 9 + payload[9]

\* what the packet adds to pes_buf: the payload behind the PES header when the
\* payload starts a PES packet, else the whole payload; "grow" tells whether
\* realloc is called
Addition(pkt, payload) ==
    IF PayloadUnitStart(pkt) /\ Len(payload) >= 9 /\ PesStartCode(payload)
    THEN IF DataStart(payload) <= Len(payload)
         THEN [grow |-> TRUE, bytes |-> SubSeq(payload, DataStart(payload) + 1, Len(payload))]
         ELSE [grow |-> FALSE, bytes |-> <<>>]
    ELSE [grow |-> TRUE, bytes |-> payload]

\* "find plausible TS sync offset": the first offset with three sync bytes
\* 188 bytes apart, 0 when there is none
SyncOffsets(s) ==
    {off \in 0..(TS_PACKET_SIZE - 1) :
        /\ off + 3 * TS_PACKET_SIZE <= Len(s)
        /\ s[off + 1] = TS_SYNC_BYTE
        /\ s[off + TS_PACKET_SIZE + 1] = TS_SYNC_BYTE
        /\ s[off + 2 * TS_PACKET_SIZE + 1] = TS_SYNC_BYTE}

SyncOffset(s) == IF SyncOffsets(s) = {} THEN 0 ELSE Least(SyncOffsets(s))

\* size >= 188 && seg[0] == 0x47
LooksLikeTs(s) == Len(s) >= TS_PACKET_SIZE /\ s[1] = TS_SYNC_BYTE

\* the flush of the assembled PES payload inside the packet loop: the whole
\* feed, then the two passes over its NAL units
FlushFed(buf, env, w) ==
    IF w.stop THEN w ELSE TwoPasses(w, UnitsOf(buf, "pes"), "pes", env)

FlushInLoop(st, buf, env) == FlushFed(buf, env, WholeFeed(st, buf, "pes", env))

\* ---- segments ----
\* a packet as it is put together: sync byte, payload_unit_start, PID, the
\* payload bytes, how many of them are PES header, and whether the packet
\* carries an adaptation field only
VideoPid == 256
AudioPid == 257

\* the adaptation field that fills a packet up: a flags byte, then stuffing
Stuffing(n) == [k \in 1..n |-> IF k = 1 THEN 0 ELSE 255]

TsHeader(d, afc) ==
    <<d.sync, (IF d.pusi THEN 64 ELSE 0) + (d.pid \div 256), d.pid % 256, afc * 16>>

TsPacketOf(d) ==
    IF "af_len" \in DOMAIN d
    THEN TsHeader(d, 3) \o <<d.af_len>> \o [k \in 1..183 |-> 255]
    ELSE IF d.adapt_only
    THEN TsHeader(d, 2) \o <<183>> \o Stuffing(183)
    ELSE IF Len(d.payload) = 184
    THEN TsHeader(d, 1) \o d.payload
    ELSE TsHeader(d, 3) \o <<183 - Len(d.payload)>> \o Stuffing(183 - Len(d.payload)) \o d.payload

\* a PES header with hl bytes of optional fields
PesHeader(stream_id, hl) == <<0, 0, 1, stream_id, 0, 0, 128, 0, hl>> \o [k \in 1..hl |-> 255]

PesStart(pid, stream_id, hl, data) ==
    [sync |-> TS_SYNC_BYTE, pusi |-> TRUE, pid |-> pid, adapt_only |-> FALSE,
     payload |-> PesHeader(stream_id, hl) \o data, header |-> 9 + hl]

Continuation(pid, data) ==
    [sync |-> TS_SYNC_BYTE, pusi |-> FALSE, pid |-> pid, adapt_only |-> FALSE,
     payload |-> data, header |-> 0]

VStart123 == PesStart(VideoPid, 224, 2, <<1, 2, 3>>)
VStartUnits == PesStart(VideoPid, 224, 0, Sc3 \o SpsHigh \o Sc3 \o PpsShort \o Sc3 \o IdrSlice \o Pad3)
VStartEmpty == PesStart(VideoPid, 225, 1, <<>>)
VCont45 == Continuation(VideoPid, <<4, 5>>)
VContFull == Continuation(VideoPid, [k \in 1..184 |-> 171])
AStart == PesStart(AudioPid, 192, 0, <<9, 9>>)
AdaptOnly == [Continuation(VideoPid, <<>>) EXCEPT !.adapt_only = TRUE]
\* a PES start of 7 bytes: too short for its header to be taken off
VStartShort == [Continuation(VideoPid, <<0, 0, 1, 224, 0, 0, 128>>) EXCEPT !.pusi = TRUE]
\* a PES header that says it is longer than the payload
VStartBeyond == [Continuation(VideoPid, <<0, 0, 1, 224, 0, 0, 128, 0, 50, 1, 2, 3>>) EXCEPT !.pusi = TRUE]
\* wrong sync byte
BadSync(d) == [d EXCEPT !.sync = 0]

\* a payload made of sync bytes
VContSync == Continuation(VideoPid, [k \in 1..184 |-> TS_SYNC_BYTE])

\* a second stream that looks like video, on a PID of its own
OtherVideoPid == 258
V2Start == PesStart(OtherVideoPid, 224, 0, <<7>>)
\* 00 00 01 E0 at the head of a payload that does not start a unit
ALikeStart == Continuation(AudioPid, <<0, 0, 1, 224, 0, 0, 128, 0, 0, 7>>)
\* a unit start whose payload has 5 bytes only
VStartTiny == [Continuation(VideoPid, <<0, 0, 1, 224, 0>>) EXCEPT !.pusi = TRUE]

\* a PES start that fills its packet: no adaptation field
VStartFull == PesStart(VideoPid, 224, 0, [k \in 1..175 |-> 171])
\* an adaptation field that fills the packet, with adaptation_field_control 3
VContNone == Continuation(VideoPid, <<>>)
\* an adaptation_field_length that points behind the packet
VContOverlong ==
    [sync |-> TS_SYNC_BYTE, pusi |-> FALSE, pid |-> VideoPid, adapt_only |-> FALSE,
     payload |-> <<>>, header |-> 0, af_len |-> 200]

PacketKinds ==
    {VStart123, VStartUnits, VStartEmpty, VCont45, VContFull, AStart, AdaptOnly,
     VStartShort, VStartBeyond, BadSync(VCont45), BadSync(VStart123)}

NamedSegments ==
    { <<AStart, VStart123, AdaptOnly>>,
      <<VStart123, VCont45, VCont45>>,
      <<AStart, VStart123, VCont45>>,
      <<VStart123, VContFull, VCont45>>,
      <<VStartEmpty, VCont45, AStart>>,
      <<VStart123, BadSync(VCont45), VCont45>>,
      <<BadSync(AStart), VStart123, VCont45>>,
      <<VStartUnits, VStartUnits, VStart123>>,
      <<VStart123, VStartUnits, VStartUnits, VCont45>>,
      <<VContSync, BadSync(VContSync), VContSync, VContSync>>,
      <<BadSync(VContSync), VContSync, VContSync, VContSync>>,
      <<VStart123, V2Start, VCont45>>,
      <<ALikeStart, VStart123, VCont45>>,
      <<VStartTiny, VCont45>>,
      <<VStart123, VContNone, VContOverlong, AdaptOnly, VCont45>>,
      <<VStartFull, VCont45>> }

\* every segment of one or two packets, and the named ones
TsSegments ==
    {<<a>> : a \in PacketKinds} \cup {<<a, b>> : a \in PacketKinds, b \in PacketKinds}
    \cup NamedSegments

RECURSIVE BytesOf(_)
BytesOf(ds) == IF ds = <<>> THEN <<>> ELSE TsPacketOf(Head(ds)) \o BytesOf(Tail(ds))

TsInit ==
    /\ tpc = "idle"
    /\ seg = <<>>
    /\ desc = <<>>
    /\ pos = 0
    /\ video_pid = -1
    /\ pes_buf = <<>>
    /\ flushed = <<>>
    /\ tret = 0
    /\ tfail = FALSE

\* ---- the callback ----
\* allocations, video set-up and the user matter only where a decoder call or
\* a poll can happen
CalmEnv == [malloc_ok |-> TRUE, render_ok |-> TRUE, poll |-> "no"]

EnvsWhen(matters) == IF matters THEN NalEnvs ELSE {CalmEnv}

\* the callback is about to return st.ret
Returning(ds, s, st) ==
    /\ Effects(st)
    /\ tpc' = "done"
    /\ seg' = s
    /\ desc' = ds
    /\ tret' = st.ret
    /\ UNCHANGED <<pos, video_pid, pes_buf, flushed, tfail, ncalls, nlast>>

\* the packet loop begins
StartDemux(ds, s, st) ==
    /\ Effects(st)
    /\ tpc' = "loop"
    /\ seg' = s
    /\ desc' = ds
    /\ pos' = SyncOffset(s)
    /\ video_pid' = -1
    /\ pes_buf' = <<>>
    /\ UNCHANGED <<flushed, tret, tfail, ncalls, nlast>>

\* after simple_h264_decode on the whole segment: a picture ends the call, a
\* transport stream is demultiplexed, anything else goes to the Annex-B fallback
AfterSegmentFeed(ds, s, env, w) ==
    IF w.stop THEN Returning(ds, s, w)
    ELSE IF LooksLikeTs(s) THEN StartDemux(ds, s, w)
    ELSE Returning(ds, s, TwoPasses(w, UnitsOf(s, "fallback"), "fallback", env))

Entered(ds, s, env, st0) ==
    IF (video /\ env.poll = "entry") \/ should_quit
    THEN Returning(ds, s, [st0 EXCEPT !.quit = TRUE, !.ret = 1])
    ELSE AfterSegmentFeed(ds, s, env, WholeFeed(st0, s, "fallback", env))

\* hls_segment_callback is entered with a segment; it is called again only
\* after it returned 0
TsCallback ==
    /\ tpc = "idle"
    /\ dpc = "run"
    /\ ncalls < MaxCalls
    /\ tret = 0
    /\ \E ds \in TsSegments :
         \E env \in EnvsWhen(video \/ ~LooksLikeTs(BytesOf(ds))) :
            Entered(ds, BytesOf(ds), env, CallState(decoder, video, should_quit))

\* the rest of the loop body once a flush (if any) is over: the flush may have
\* returned 1; a failed realloc leaves the loop
AppendPayload(vp, buf, fl, st, add, realloc_ok) ==
    /\ Effects(st)
    /\ video_pid' = vp
    /\ flushed' = fl
    /\ pos' = pos + TS_PACKET_SIZE
    /\ IF st.ret = 1
       THEN /\ tpc' = "done"
            /\ tret' = 1
            /\ pes_buf' = buf
            /\ UNCHANGED tfail
       ELSE IF add.grow /\ ~realloc_ok
       THEN /\ tpc' = "final"
            /\ pes_buf' = <<>>
            /\ tfail' = TRUE
            /\ UNCHANGED tret
       ELSE /\ tpc' = "loop"
            /\ pes_buf' = buf \o add.bytes
            /\ UNCHANGED <<tret, tfail>>
    /\ UNCHANGED <<seg, desc, ncalls, nlast>>

\* a packet of the video PID: a PES start flushes what was assembled so far
VideoPacket(pkt, payload, vp, env, realloc_ok, st0) ==
    IF PayloadUnitStart(pkt) /\ Len(pes_buf) > 0
    THEN AppendPayload(vp, <<>>, Append(flushed, pes_buf), FlushInLoop(st0, pes_buf, env),
                       Addition(pkt, payload), realloc_ok)
    ELSE AppendPayload(vp, pes_buf, flushed, st0, Addition(pkt, payload), realloc_ok)

\* a packet that adds nothing
PassOver(vp) ==
    /\ video_pid' = vp
    /\ pos' = pos + TS_PACKET_SIZE
    /\ UNCHANGED <<tpc, seg, desc, pes_buf, flushed, tret, tfail>>
    /\ UNCHANGED <<hlsVars, decVars, paceVars, nalVars, textVars, memVars>>

PacketWithPayload(pkt, payload, vp, env, realloc_ok) ==
    IF vp # -1 /\ PidOf(pkt) = vp
    THEN VideoPacket(pkt, payload, vp, env, realloc_ok, CallState(decoder, video, should_quit))
    ELSE PassOver(vp)

PacketAt(pkt, env, realloc_ok) ==
    IF PacketSkipped(pkt)
    THEN PassOver(video_pid)
    ELSE PacketWithPayload(pkt, PayloadOf(pkt), DetectedPid(video_pid, pkt, PayloadOf(pkt)),
                           env, realloc_ok)

\* one turn of for (pos = sync_offset; pos + 188 <= size; pos += 188)
TsPacket ==
    /\ tpc = "loop"
    /\ dpc = "run"
    /\ pos + TS_PACKET_SIZE <= Len(seg)
    /\ \E env \in EnvsWhen(Len(pes_buf) > 0), realloc_ok \in BOOLEAN :
         PacketAt(SubSeq(seg, pos + 1, pos + TS_PACKET_SIZE), env, realloc_ok)

\* "final flush of any remaining PES buffer", and return 0
TsFinalFlush ==
    /\ \/ tpc = "loop" /\ pos + TS_PACKET_SIZE > Len(seg)
       \/ tpc = "final"
    /\ dpc = "run"
    /\ \E env \in EnvsWhen(Len(pes_buf) > 0) :
         IF Len(pes_buf) > 0
         THEN /\ Effects(TwoPasses(CallState(decoder, video, should_quit),
                                   UnitsOf(pes_buf, "final"), "final", env))
              /\ flushed' = Append(flushed, pes_buf)
         ELSE /\ Effects(CallState(decoder, video, should_quit))
              /\ UNCHANGED flushed
    /\ tpc' = "done"
    /\ tret' = 0
    /\ pes_buf' = <<>>
    /\ UNCHANGED <<seg, desc, pos, video_pid, tfail, ncalls, nlast>>

\* the callback returns: its locals are gone
TsReturn ==
    /\ tpc = "done"
    /\ tpc' = "idle"
    /\ seg' = <<>>
    /\ desc' = <<>>
    /\ pos' = 0
    /\ video_pid' = -1
    /\ pes_buf' = <<>>
    /\ flushed' = <<>>
    /\ tfail' = FALSE
    /\ ncalls' = ncalls + 1
    /\ UNCHANGED <<tret, video, nlast>>
    /\ UNCHANGED <<hlsVars, decVars, paceVars, textVars, memVars>>

TsNext ==
    \/ TsCallback
    \/ TsPacket
    \/ TsFinalFlush
    \/ TsReturn

\* ========================================================================
\* The playlist parser (src/unnamed/part_005) and the helpers of
\* hls_demuxer.c that work on playlist text
\* ========================================================================
\* A C string is the sequence of its characters, each a one-character
\* string; NUL stands for the byte 0 and NullStr for a null pointer.
NUL == "\\0"
NullStr == <<"NULL">>

\* isspace() in the C locale (the texts used here hold no vertical tab)
IsSpace(c) == c \in {" ", "\t", "\n", "\r", "\f"}

\* s[k] of a NUL-terminated string (k counted from 1 here)
CharAt(s, k) == IF k <= Len(s) THEN s[k] ELSE NUL

\* strncmp(s, lit, n) == 0: the strings agree on the first n characters, or
\* up to and including the NUL that ends them both
StrncmpEq(s, lit, n) ==
    \A k \in 1..n : (\A j \in 1..(k - 1) : CharAt(lit, j) # NUL) => CharAt(s, k) = CharAt(lit, k)

\* the part of s before its first NUL (what strlen, strdup, strndup see)
CStr(s) == SubSeq(s, 1, Least({k \in 1..Len(s) : s[k] = NUL} \cup {Len(s) + 1}) - 1)

Greatest(S) == CHOOSE a \in S : \A c \in S : a >= c

\* static char* trim(char *str)
trim(str) ==
    SubSeq(str, Least({k \in 1..Len(str) : ~IsSpace(str[k])} \cup {Len(str) + 1}),
                Greatest({k \in 1..Len(str) : ~IsSpace(str[k])} \cup {0}))

\* ---- the recognised tags ----
TagExtM3U == <<"#", "E", "X", "T", "M", "3", "U">>
TagStreamInf == <<"#", "E", "X", "T", "-", "X", "-", "S", "T", "R", "E", "A", "M", "-", "I", "N", "F", ":">>
TagExtInf == <<"#", "E", "X", "T", "I", "N", "F", ":">>
TagTargetDuration == <<"#", "E", "X", "T", "-", "X", "-", "T", "A", "R", "G", "E", "T", "D", "U", "R", "A", "T", "I", "O", "N", ":">>
TagMediaSequence == <<"#", "E", "X", "T", "-", "X", "-", "M", "E", "D", "I", "A", "-", "S", "E", "Q", "U", "E", "N", "C", "E", ":">>
SchemeHttp == <<"h", "t", "t", "p", ":", "/", "/">>
SchemeHttps == <<"h", "t", "t", "p", "s", ":", "/", "/">>

\* ---- atof ----
DigitValue == [c \in {"0", "1", "2", "3", "4", "5", "6", "7", "8", "9"} |->
                 CASE c = "0" -> 0 [] c = "1" -> 1 [] c = "2" -> 2 [] c = "3" -> 3 [] c = "4" -> 4
                   [] c = "5" -> 5 [] c = "6" -> 6 [] c = "7" -> 7 [] c = "8" -> 8 [] c = "9" -> 9]
IsDigit(c) == c \in DOMAIN DigitValue

\* the digits s starts with
LeadingDigits(s) == SubSeq(s, 1, Least({k \in 1..Len(s) : ~IsDigit(s[k])} \cup {Len(s) + 1}) - 1)

RECURSIVE DecimalValue(_)
DecimalValue(ds) ==
    IF ds = <<>> THEN 0 ELSE 10 * DecimalValue(SubSeq(ds, 1, Len(ds) - 1)) + DigitValue[ds[Len(ds)]]

\* digits after the point, without the zeros that end them
FractionDigits(ds) == SubSeq(ds, 1, Greatest({k \in 1..Len(ds) : ds[k] # "0"} \cup {0}))

AfterWhole(s) == SubSeq(s, Len(LeadingDigits(s)) + 1, Len(s))

\* atof(s) for texts of the form digits[.digits] followed by anything (no
\* sign, no exponent, no leading blanks): the number as whole part and
\* fraction digits; text that starts with no number gives 0.0
atof(s) ==
    [whole |-> DecimalValue(LeadingDigits(s)),
     frac  |-> IF CharAt(AfterWhole(s), 1) = "."
               THEN FractionDigits(LeadingDigits(SubSeq(AfterWhole(s), 2, Len(AfterWhole(s)))))
               ELSE <<>>]

\* ---- hls_playlist_create ----
hls_playlist_create ==
    [type |-> "HLS_PLAYLIST_UNKNOWN", base_url |-> NullStr, segments |-> <<>>,
     segment_capacity |-> 16, variants |-> <<>>]

\* ---- one line of hls_parse_playlist_from_memory ----
\* where strchr(line, '\n') stops: at the line feed, or at the NUL it meets first
LineStop(data, from) ==
    Least({k \in from..(Len(data) - 1) : data[k + 1] \in {"\n", NUL}} \cup {Len(data)})

\* const char *next_line (as an offset into data)
NextLine(data, from) ==
    IF LineStop(data, from) < Len(data) /\ data[LineStop(data, from) + 1] = "\n"
    THEN LineStop(data, from) ELSE Len(data)

\* char *line_copy = strndup(line, line_len)
LineCopy(data, from) == CStr(SubSeq(data, from + 1, NextLine(data, from)))

\* the last branch of the chain: the line is a URI
IsUriLineAnyText(trimmed) == Len(trimmed) > 0
IsUriLine(trimmed) == CharAt(trimmed, 1) # "#" /\ Len(trimmed) > 0

\* a URI line: a variant of a master playlist, else a segment; url_ok is
\* whether strdup (and, for a variant, realloc) gave memory
AddUri(pl, trimmed, duration, url_ok) ==
    IF pl.type = "HLS_PLAYLIST_MASTER"
    THEN IF url_ok THEN [pl EXCEPT !.variants = Append(@, trimmed)] ELSE pl
    ELSE IF url_ok
         THEN [pl EXCEPT !.segments = Append(@, [url |-> trimmed, duration |-> duration]),
                         !.segment_capacity = IF Len(pl.segments) >= @ THEN 2 * @ ELSE @]
         ELSE [pl EXCEPT !.segment_capacity = IF Len(pl.segments) >= @ THEN 2 * @ ELSE @]

\* the if / else-if chain on the trimmed line: the playlist and
\* current_duration after it
AfterLine(st, trimmed, url_ok) ==
    IF StrncmpEq(trimmed, TagExtM3U, 7) THEN st
    ELSE IF StrncmpEq(trimmed, TagStreamInf, 18)
    THEN [st EXCEPT !.pl.type = "HLS_PLAYLIST_MASTER"]
    ELSE IF StrncmpEq(trimmed, TagExtInf, 8)
    THEN [st EXCEPT !.pl.type = "HLS_PLAYLIST_MEDIA",
                    !.current_duration = atof(SubSeq(trimmed, 9, Len(trimmed)))]
    ELSE IF StrncmpEq(trimmed, TagTargetDuration, 22)
    THEN [st EXCEPT !.pl.type = "HLS_PLAYLIST_MEDIA"]
    ELSE IF StrncmpEq(trimmed, TagMediaSequence, 22)
    THEN [st EXCEPT !.pl.type = "HLS_PLAYLIST_MEDIA"]
    ELSE IF IsUriLine(trimmed)
    THEN [st EXCEPT !.pl = AddUri(st.pl, trimmed, st.current_duration, url_ok)]
    ELSE st

\* the whole loop when every allocation succeeds: the playlist parsed from data
RECURSIVE ParseFrom(_, _, _)
ParseFrom(data, from, st) ==
    IF from >= Len(data) THEN st.pl
    ELSE ParseFrom(data, NextLine(data, from) + 1, AfterLine(st, trim(LineCopy(data, from)), TRUE))

ParsedPlaylist(data, base) ==
    ParseFrom(data, 0, [pl |-> [hls_playlist_create EXCEPT !.base_url = base],
                        current_duration |-> atof(<<>>)])

\* ---- hls_resolve_url ----
LastSlash(s) == Greatest({k \in 1..Len(s) : s[k] = "/"} \cup {0})

ResolveVerbatim(base_url, relative_url) == relative_url
hls_resolve_url(base_url, relative_url) ==
    IF base_url = NullStr \/ relative_url = NullStr THEN NullStr
    ELSE IF StrncmpEq(relative_url, SchemeHttp, 7) \/ StrncmpEq(relative_url, SchemeHttps, 8)
    THEN relative_url
    ELSE (IF LastSlash(base_url) > 0 THEN SubSeq(base_url, 1, LastSlash(base_url)) ELSE base_url)
         \o relative_url

\* base_url of hls_process_stream: playlist_url up to its last '/'
BaseOf(url) == IF LastSlash(url) > 0 THEN SubSeq(url, 1, LastSlash(url)) ELSE NullStr

\* ---- hls_is_master_playlist ----
\* const char *line_end of the line that starts at offset p (memchr looks at
\* every byte up to end, NUL or not)
MemchrNl(data, p) == Least({k \in p..(Len(data) - 1) : data[k + 1] = "\n"} \cup {Len(data)})

\* const char *s: past the leading spaces, tabs and carriage returns
SkipBlanks(data, p, line_end) ==
    Least({k \in p..(line_end - 1) : data[k + 1] \notin {" ", "\t", "\r"}} \cup {line_end})

\* the number of characters the tag is compared on
TagCompareLength == 19

LineIsStreamInf(data, s, line_end) ==
    /\ line_end - s >= TagCompareLength
    /\ StrncmpEq(SubSeq(data, s + 1, Len(data)), TagStreamInf, TagCompareLength)

RECURSIVE IsMasterFrom(_, _)
IsMasterFrom(data, p) ==
    IF p >= Len(data) THEN FALSE
    ELSE IF LineIsStreamInf(data, SkipBlanks(data, p, MemchrNl(data, p)), MemchrNl(data, p)) THEN TRUE
    ELSE IsMasterFrom(data, MemchrNl(data, p) + 1)

hls_is_master_playlist(data) == IsMasterFrom(data, 0)

\* ---- playlist texts ----
\* a line of a playlist as it is written, what it is, and for a URI line
\* the URI it carries
PlaylistLine(chars, kind, uri) == [chars |-> chars, kind |-> kind, uri |-> uri]

LExtM3U == PlaylistLine(<<"#", "E", "X", "T", "M", "3", "U">>, "extm3u", <<>>)
LStreamInf == PlaylistLine(<<"#", "E", "X", "T", "-", "X", "-", "S", "T", "R", "E", "A", "M", "-", "I", "N", "F", ":", "B", "A", "N", "D", "W", "I", "D", "T", "H", "=", "1">>, "stream_inf", <<>>)
LStreamInfTab == PlaylistLine(<<"\t", "#", "E", "X", "T", "-", "X", "-", "S", "T", "R", "E", "A", "M", "-", "I", "N", "F", ":", "B", "A", "N", "D", "W", "I", "D", "T", "H", "=", "1", "\r">>, "stream_inf", <<>>)
LStreamInfNul == PlaylistLine(<<"#", "E", "X", "T", "-", "X", "-", "S", "T", "R", "E", "A", "M", "-", "I", "N", "F", ":", NUL>>, "stream_inf", <<>>)
LExtInf == PlaylistLine(<<"#", "E", "X", "T", "I", "N", "F", ":", "9", ".", "5", "0", ",">>, "extinf", <<>>)
LExtInf10 == PlaylistLine(<<"#", "E", "X", "T", "I", "N", "F", ":", "1", "0", "\r">>, "extinf", <<>>)
LTargetDuration == PlaylistLine(<<"#", "E", "X", "T", "-", "X", "-", "T", "A", "R", "G", "E", "T", "D", "U", "R", "A", "T", "I", "O", "N", ":", "1", "0">>, "media_tag", <<>>)
LMediaSequence == PlaylistLine(<<"#", "E", "X", "T", "-", "X", "-", "M", "E", "D", "I", "A", "-", "S", "E", "Q", "U", "E", "N", "C", "E", ":", "0">>, "media_tag", <<>>)
LSegRelative == PlaylistLine(<<"a", ".", "t", "s">>, "uri", <<"a", ".", "t", "s">>)
LSegAbsolute == PlaylistLine(<<"h", "t", "t", "p", "s", ":", "/", "/", "c", "/", "b", ".", "t", "s">>, "uri", <<"h", "t", "t", "p", "s", ":", "/", "/", "c", "/", "b", ".", "t", "s">>)
LSegPadded == PlaylistLine(<<" ", "c", ".", "t", "s", "\r">>, "uri", <<"c", ".", "t", "s">>)
LEndList == PlaylistLine(<<"#", "E", "X", "T", "-", "X", "-", "E", "N", "D", "L", "I", "S", "T">>, "unknown", <<>>)
LNearTag == PlaylistLine(<<"#", "E", "X", "T", "I", "N", "F", " ", "4">>, "unknown", <<>>)
LBlank == PlaylistLine(<<" ">>, "blank", <<>>)

LineKinds ==
    {LExtM3U, LStreamInf, LStreamInfTab, LStreamInfNul, LExtInf, LExtInf10, LTargetDuration,
     LMediaSequence, LSegRelative, LSegAbsolute, LSegPadded, LEndList, LNearTag, LBlank}

\* the lines the three-line texts are made of
CoreLines == {LStreamInf, LExtInf, LSegRelative, LSegAbsolute, LEndList}

\* a text: its lines, and whether the last one ends with a line feed
PlaylistSource(lines, closed) == [lines |-> lines, closed |-> closed]

NamedSources ==
    {PlaylistSource(<<>>, FALSE),
     PlaylistSource(<<LExtM3U, LExtInf, LSegRelative>>, FALSE),
     PlaylistSource(<<LExtInf, LSegRelative, LEndList>>, FALSE),
     PlaylistSource(<<LExtM3U, LTargetDuration, LExtInf, LSegRelative, LExtInf10, LSegPadded, LEndList>>, TRUE),
     PlaylistSource(<<LExtM3U, LNearTag, LExtInf, LEndList, LSegAbsolute, LSegRelative>>, TRUE),
     PlaylistSource(<<LExtM3U, LStreamInf, LSegRelative, LStreamInfTab, LSegAbsolute>>, TRUE),
     PlaylistSource(<<LExtInf, LSegRelative, LStreamInf, LSegAbsolute>>, TRUE),
     PlaylistSource(<<LStreamInf, LSegRelative, LExtInf, LSegAbsolute>>, TRUE)}

PlaylistSources ==
    {PlaylistSource(<<a>>, TRUE) : a \in LineKinds}
    \cup {PlaylistSource(<<a, b>>, TRUE) : a \in LineKinds, b \in LineKinds}
    \cup {PlaylistSource(<<a, b, c>>, TRUE) : a \in CoreLines, b \in CoreLines, c \in CoreLines}
    \cup NamedSources

RECURSIVE JoinLines(_)
JoinLines(lines) ==
    IF lines = <<>> THEN <<>>
    ELSE IF Len(lines) = 1 THEN lines[1].chars
    ELSE lines[1].chars \o <<"\n">> \o JoinLines(Tail(lines))

\* the characters of the text
TextOf(src) == JoinLines(src.lines) \o (IF src.closed THEN <<"\n">> ELSE <<>>)

\* the URLs a playlist is downloaded from
PlaylistUrls == {<<"h", "t", "t", "p", ":", "/", "/", "h", "/", "p", "/", "l", ".", "m", "3", "u", "8">>, <<"h", "t", "t", "p", "s", ":", "/", "/", "h">>, <<"l", ".", "m", "3", "u", "8">>}

ParseInit ==
    /\ ppc = "idle"
    /\ source = PlaylistSource(<<>>, FALSE)
    /\ playlist_url = <<>>
    /\ m3u8 = <<>>
    /\ line = 0
    /\ parsed = hls_playlist_create
    /\ current_duration = atof(<<>>)
    /\ pret = "none"
    /\ pfail = FALSE
    /\ fetched = <<>>
    /\ is_master = "unset"

\* hls_process_stream has downloaded a playlist: hls_playlist_create, the
\* base URL, and the entry of hls_parse_playlist_from_memory
ParseStart ==
    /\ ppc = "idle"
    /\ \E src \in PlaylistSources, url \in PlaylistUrls :
          /\ source' = src
          /\ playlist_url' = url
          /\ m3u8' = TextOf(src)
          /\ parsed' = [hls_playlist_create EXCEPT !.base_url = BaseOf(url)]
    /\ line' = 0
    /\ current_duration' = atof(<<>>)
    /\ ppc' = "lines"
    /\ UNCHANGED <<pret, pfail, fetched, is_master>>
    /\ UNCHANGED <<NotText, pickVars>>

\* one turn of while (line < data + len); mem says which allocation fails
ParseLine ==
    /\ ppc = "lines"
    /\ line < Len(m3u8)
    /\ \E mem \in {"ok", "line_copy", "url"} :
          IF mem = "line_copy"
          THEN /\ pret' = "HLS_ERROR_MEMORY"
               /\ ppc' = "done"
               /\ pfail' = TRUE
               /\ UNCHANGED <<line, parsed, current_duration>>
          ELSE /\ mem = "url" => IsUriLine(trim(LineCopy(m3u8, line)))
               /\ parsed' = AfterLine([pl |-> parsed, current_duration |-> current_duration],
                                      trim(LineCopy(m3u8, line)), mem = "ok").pl
               /\ current_duration' =
                      AfterLine([pl |-> parsed, current_duration |-> current_duration],
                                trim(LineCopy(m3u8, line)), mem = "ok").current_duration
               /\ line' = NextLine(m3u8, line) + 1
               /\ pfail' = (pfail \/ mem = "url")
               /\ UNCHANGED <<ppc, pret>>
    /\ UNCHANGED <<source, playlist_url, m3u8, fetched, is_master>>
    /\ UNCHANGED <<NotText, pickVars>>

\* the loop is over: return HLS_OK
ParseReturn ==
    /\ ppc = "lines"
    /\ line >= Len(m3u8)
    /\ pret' = "HLS_OK"
    /\ ppc' = "parsed"
    /\ UNCHANGED <<source, playlist_url, m3u8, line, parsed, current_duration, pfail, fetched, is_master>>
    /\ UNCHANGED <<NotText, pickVars>>

\* hls_process_stream resolves the URL of the next segment to fetch
ResolveSegment ==
    /\ ppc = "parsed"
    /\ Len(fetched) < Len(parsed.segments)
    /\ fetched' = Append(fetched, hls_resolve_url(parsed.base_url, parsed.segments[Len(fetched) + 1].url))
    /\ UNCHANGED <<ppc, source, playlist_url, m3u8, line, parsed, current_duration, pret, pfail, is_master>>
    /\ UNCHANGED <<NotText, pickVars>>

\* hls_is_master_playlist on the text that was parsed
CheckMaster ==
    /\ ppc = "parsed"
    /\ Len(fetched) = Len(parsed.segments)
    /\ is_master' = IF hls_is_master_playlist(m3u8) THEN "true" ELSE "false"
    /\ ppc' = "done"
    /\ UNCHANGED <<source, playlist_url, m3u8, line, parsed, current_duration, pret, pfail, fetched>>
    /\ UNCHANGED <<NotText, pickVars>>

ParseNext ==
    \/ ParseStart
    \/ ParseLine
    \/ ParseReturn
    \/ ResolveSegment
    \/ CheckMaster

\* ========================================================================
\* Variant selection: pick_lowest_variant_from_master
\* (src/src/resolver/twitch.c)
\* ========================================================================
INT_MAX == 2147483647

\* strstr(hay, needle) as the offset of the first occurrence; Len(hay) + 1
\* stands for NULL
StrStr(hay, needle) ==
    Least({k \in 0..(Len(hay) - Len(needle)) : SubSeq(hay, k + 1, k + Len(needle)) = needle}
          \cup {Len(hay) + 1})

\* atoi(s): blanks, an optional sign, then the digits s goes on with
AfterBlanks(s) == SubSeq(s, Least({k \in 1..Len(s) : ~IsSpace(s[k])} \cup {Len(s) + 1}), Len(s))
SignedValue(s) ==
    IF CharAt(s, 1) = "-" THEN 0 - DecimalValue(LeadingDigits(Tail(s)))
    ELSE IF CharAt(s, 1) = "+" THEN DecimalValue(LeadingDigits(Tail(s)))
    ELSE DecimalValue(LeadingDigits(s))
atoi(s) == SignedValue(AfterBlanks(s))

AttrBandwidth == <<"B", "A", "N", "D", "W", "I", "D", "T", "H", "=">>
AttrResolution == <<"R", "E", "S", "O", "L", "U", "T", "I", "O", "N", "=">>

\* int bw of a tag line
BandwidthOf(tag_line) ==
    IF StrStr(tag_line, AttrBandwidth) > Len(tag_line) THEN 0
    ELSE atoi(SubSeq(tag_line, StrStr(tag_line, AttrBandwidth) + Len(AttrBandwidth) + 1, Len(tag_line)))

\* what follows "RESOLUTION=" in a tag line that has it
AfterResolution(tag_line) ==
    SubSeq(tag_line, StrStr(tag_line, AttrResolution) + Len(AttrResolution) + 1, Len(tag_line))

\* the height read behind the first 'x' of respos
HeightBehindX(respos) ==
    IF StrStr(respos, <<"x">>) > Len(respos) THEN 0
    ELSE atoi(SubSeq(respos, StrStr(respos, <<"x">>) + 2, Len(respos)))

\* int h of a tag line
HeightOf(tag_line) ==
    IF StrStr(tag_line, AttrResolution) > Len(tag_line) THEN 0
    ELSE HeightBehindX(AfterResolution(tag_line))

\* strchr(p, '\n') as an offset; Len(content) stands for NULL (the
\* content is a C string and holds no NUL)
StrchrNl(content, p) == Least({k \in p..(Len(content) - 1) : content[k + 1] = "\n"} \cup {Len(content)})

\* const char *ln, const char *s: past the leading spaces and tabs
SkipSpTab(content, p, line_end) ==
    Least({k \in p..(line_end - 1) : content[k + 1] \notin {" ", "\t"}} \cup {line_end})

\* the number of characters of the tag that are compared
VariantTagCompared == 17

\* if (linelen >= 17 && strncmp(ln, "#EXT-X-STREAM-INF:", 17) == 0)
IsVariantTag(content, ln, line_end) ==
    /\ line_end - ln >= VariantTagCompared
    /\ StrncmpEq(SubSeq(content, ln + 1, Len(content)), TagStreamInf, VariantTagCompared)

\* the inner loop from q: the first line that is not empty and does not
\* start with '#', without its leading blanks; NullStr if there is none
UriLineAt(content, s, le) ==
    le - s > 0 /\ content[s + 1] # "#"

RECURSIVE UriAfter(_, _)
UriAfter(content, q) ==
    IF q >= Len(content) THEN NullStr
    ELSE IF UriLineAt(content, SkipSpTab(content, q, StrchrNl(content, q)), StrchrNl(content, q))
    THEN SubSeq(content, SkipSpTab(content, q, StrchrNl(content, q)) + 1, StrchrNl(content, q))
    ELSE UriAfter(content, StrchrNl(content, q) + 1)

\* static char *resolve_relative(const char *base, const char *ref)
resolve_relative(base, ref) ==
    IF ref = NullStr THEN NullStr
    ELSE IF StrStr(ref, SchemeHttp) = 0 \/ StrStr(ref, SchemeHttps) = 0 THEN ref
    ELSE IF base = NullStr THEN ref
    ELSE IF LastSlash(base) = 0 THEN ref
    ELSE SubSeq(base, 1, LastSlash(base)) \o ref

\* struct variant v = { abs, bw, h };
VariantOf(tag_line, uri, base) ==
    [uri |-> resolve_relative(base, uri), bandwidth |-> BandwidthOf(tag_line), height |-> HeightOf(tag_line)]

\* ---- the selection loop ----
\* int h1 = list[i].height ? list[i].height : INT_MAX;
HeightAsDeclared(v) == v.height
EffectiveHeight(v) == IF v.height # 0 THEN v.height ELSE INT_MAX

\* int best_idx = 0;
FirstCandidateKept == IF Len(picks) > 0 /\ Len(list) > 1 THEN 1 ELSE 0
FirstCandidate == 0

\* best_idx after the turn of the loop for list[i] (indices from 0, as in the code)
BestAfter(lst, best, k) ==
    IF EffectiveHeight(lst[k + 1]) < EffectiveHeight(lst[best + 1]) THEN k
    ELSE IF /\ EffectiveHeight(lst[k + 1]) = EffectiveHeight(lst[best + 1])
            /\ lst[k + 1].bandwidth # 0
            /\ lst[best + 1].bandwidth # 0
            /\ lst[k + 1].bandwidth < lst[best + 1].bandwidth
    THEN k
    ELSE best

\* ---- master playlists ----
\* a variant as the playlist declares it (0 for an attribute that is
\* absent), the lines that declare it, and its URI
Variant(has_bw, bw, has_h, h, uri, lines) ==
    [has_bw |-> has_bw, bw |-> bw, has_h |-> has_h, h |-> h, uri |-> uri, lines |-> lines]

VLow == Variant(TRUE, 200, TRUE, 160, <<"l", "o", "w", ".", "m", "3", "u", "8">>,
                <<"#", "E", "X", "T", "-", "X", "-", "S", "T", "R", "E", "A", "M", "-", "I", "N", "F", ":", "B", "A", "N", "D", "W", "I", "D", "T", "H", "=", "2", "0", "0", ",", "R", "E", "S", "O", "L", "U", "T", "I", "O", "N", "=", "2", "8", "4", "x", "1", "6", "0", "\n", "l", "o", "w", ".", "m", "3", "u", "8", "\n">>)
VLowCheap == Variant(TRUE, 100, TRUE, 160, <<"c", "h", "e", "a", "p", ".", "m", "3", "u", "8">>,
                <<"#", "E", "X", "T", "-", "X", "-", "M", "E", "D", "I", "A", ":", "T", "Y", "P", "E", "=", "V", "I", "D", "E", "O", "\n", "\t", "#", "E", "X", "T", "-", "X", "-", "S", "T", "R", "E", "A", "M", "-", "I", "N", "F", ":", "R", "E", "S", "O", "L", "U", "T", "I", "O", "N", "=", "2", "8", "4", "x", "1", "6", "0", ",", "B", "A", "N", "D", "W", "I", "D", "T", "H", "=", "1", "0", "0", "\n", "\n", "#", " ", "c", "\n", " ", "c", "h", "e", "a", "p", ".", "m", "3", "u", "8", "\n">>)
VLowNoBandwidth == Variant(FALSE, 0, TRUE, 160, <<"n", "o", "b", "w", ".", "m", "3", "u", "8">>,
                <<"#", "E", "X", "T", "-", "X", "-", "S", "T", "R", "E", "A", "M", "-", "I", "N", "F", ":", "R", "E", "S", "O", "L", "U", "T", "I", "O", "N", "=", "2", "8", "4", "x", "1", "6", "0", ",", "C", "O", "D", "E", "C", "S", "=", "a", "v", "c", "1", "\n", "n", "o", "b", "w", ".", "m", "3", "u", "8", "\n">>)
VLowZeroBandwidth == Variant(TRUE, 0, TRUE, 160, <<"z", "e", "r", "o", ".", "m", "3", "u", "8">>,
                <<"#", "E", "X", "T", "-", "X", "-", "S", "T", "R", "E", "A", "M", "-", "I", "N", "F", ":", "B", "A", "N", "D", "W", "I", "D", "T", "H", "=", "0", ",", "R", "E", "S", "O", "L", "U", "T", "I", "O", "N", "=", "2", "8", "4", "x", "1", "6", "0", "\n", "z", "e", "r", "o", ".", "m", "3", "u", "8", "\n">>)
VHigh == Variant(TRUE, 90, TRUE, 720, <<"h", "t", "t", "p", "s", ":", "/", "/", "v", "/", "h", "i", "g", "h", ".", "m", "3", "u", "8">>,
                <<"#", "E", "X", "T", "-", "X", "-", "S", "T", "R", "E", "A", "M", "-", "I", "N", "F", ":", "B", "A", "N", "D", "W", "I", "D", "T", "H", "=", "9", "0", ",", "R", "E", "S", "O", "L", "U", "T", "I", "O", "N", "=", "1", "2", "8", "0", "x", "7", "2", "0", "\n", "h", "t", "t", "p", "s", ":", "/", "/", "v", "/", "h", "i", "g", "h", ".", "m", "3", "u", "8", "\n">>)
VAudioOnly == Variant(TRUE, 50, FALSE, 0, <<"a", "u", "d", "i", "o", ".", "m", "3", "u", "8">>,
                <<"#", "E", "X", "T", "-", "X", "-", "S", "T", "R", "E", "A", "M", "-", "I", "N", "F", ":", "B", "A", "N", "D", "W", "I", "D", "T", "H", "=", "5", "0", ",", "C", "O", "D", "E", "C", "S", "=", "m", "p", "4", "a", "\n", "a", "u", "d", "i", "o", ".", "m", "3", "u", "8", "\n">>)

VariantKinds == {VLow, VLowCheap, VLowNoBandwidth, VLowZeroBandwidth, VHigh, VAudioOnly}

\* the master playlists: up to three variants, in every order
Masters ==
    {<<>>}
    \cup {<<a>> : a \in VariantKinds}
    \cup {<<a, b>> : a \in VariantKinds, b \in VariantKinds}
    \cup {<<a, b, c>> : a \in VariantKinds, b \in VariantKinds, c \in VariantKinds}

RECURSIVE VariantLines(_)
VariantLines(ms) == IF ms = <<>> THEN <<>> ELSE ms[1].lines \o VariantLines(Tail(ms))

\* const char *master_content
MasterText(ms) == <<"#", "E", "X", "T", "M", "3", "U", "\n">> \o VariantLines(ms)

\* const char *master_url
MasterUrl == <<"h", "t", "t", "p", "s", ":", "/", "/", "u", "/", "a", "p", "i", "/", "c", ".", "m", "3", "u", "8", "?", "s", "i", "g", "=", "1">>

\* how often the selection is run on one master playlist
MaxPicks == 2

PickInit ==
    /\ kpc = "idle"
    /\ master = <<>>
    /\ master_content = <<>>
    /\ scan_p = 0
    /\ list = <<>>
    /\ best_idx = 0
    /\ sel_i = 0
    /\ picks = <<>>
    /\ kfail = FALSE

\* twitch_resolve has fetched a master playlist and calls the selection
PickStart ==
    /\ kpc = "idle"
    /\ \E ms \in Masters :
          /\ master' = ms
          /\ master_content' = MasterText(ms)
    /\ kpc' = "scan"
    /\ scan_p' = 0
    /\ list' = <<>>
    /\ UNCHANGED <<best_idx, sel_i, picks, kfail>>
    /\ UNCHANGED <<NotText, parseVars>>

\* where the scan goes on after a line: the next line, or the selection
\* when the text is over (or the loop was left)
ScanOn(next_p) ==
    /\ scan_p' = next_p
    /\ IF next_p >= Len(master_content)
       THEN kpc' = "select" /\ best_idx' = FirstCandidate /\ sel_i' = 1
       ELSE UNCHANGED <<kpc, best_idx, sel_i>>

\* a variant tag: the variant is added if a URI line follows and memory is given
TagLine(ln, line_end, mem) ==
    /\ list' = IF mem = "ok" /\ UriAfter(master_content, line_end + 1) # NullStr
               THEN Append(list, VariantOf(SubSeq(master_content, ln + 1, line_end),
                                           UriAfter(master_content, line_end + 1), MasterUrl))
               ELSE list
    /\ kfail' = (kfail \/ mem # "ok")
    /\ ScanOn(IF mem = "line" THEN Len(master_content)
              ELSE IF line_end < Len(master_content) THEN line_end + 1
              ELSE scan_p + (line_end - ln))

\* one turn of while (*p)
ScanLine(ln, line_end) ==
    IF IsVariantTag(master_content, ln, line_end)
    THEN \E mem \in {"ok", "line", "uri"} : TagLine(ln, line_end, mem)
    ELSE /\ ScanOn(line_end + 1)
         /\ UNCHANGED <<list, kfail>>

PickLine ==
    /\ kpc = "scan"
    /\ scan_p < Len(master_content)
    /\ ScanLine(SkipSpTab(master_content, scan_p, StrchrNl(master_content, scan_p)),
                StrchrNl(master_content, scan_p))
    /\ UNCHANGED <<master, master_content, picks>>
    /\ UNCHANGED <<NotText, parseVars>>

\* one turn of for (size_t i = 1; i < n; i++)
PickCompare ==
    /\ kpc = "select"
    /\ sel_i < Len(list)
    /\ best_idx' = BestAfter(list, best_idx, sel_i)
    /\ sel_i' = sel_i + 1
    /\ UNCHANGED <<kpc, master, master_content, scan_p, list, picks, kfail>>
    /\ UNCHANGED <<NotText, parseVars>>

\* if (n == 0) return NULL; ... return chosen;
PickReturn ==
    /\ kpc = "select"
    /\ sel_i >= Len(list)
    /\ picks' = Append(picks, IF Len(list) = 0 THEN NullStr ELSE list[best_idx + 1].uri)
    /\ kpc' = "done"
    /\ UNCHANGED <<master, master_content, scan_p, list, best_idx, sel_i, kfail>>
    /\ UNCHANGED <<NotText, parseVars>>

\* the selection is called again on the same master playlist
PickAgain ==
    /\ kpc = "done"
    /\ Len(picks) < MaxPicks
    /\ kpc' = "scan"
    /\ scan_p' = 0
    /\ list' = <<>>
    /\ UNCHANGED <<master, master_content, best_idx, sel_i, picks, kfail>>
    /\ UNCHANGED <<NotText, parseVars>>

PickNext ==
    \/ PickStart
    \/ PickLine
    \/ PickCompare
    \/ PickReturn
    \/ PickAgain

\* ========================================================================
\* The RGB buffer shared by the three render paths of the HLS callback
\* (main.c): process_h264_nal_unit, the direct decode of the segment and the
\* whole-PES feed. Each path is entered with a frame the decoder reported as
\* FRAME_READY, of the dimensions the current SPS gave it.
\* ========================================================================
\* frames that reach the render paths in one run
MaxRenders == 4

\* width and height an SPS can give a frame: 1920x1080 for any profile but
\* baseline, 16 * (n + 1) for baseline; width * height * 3 stays below 2^31
FrameSizes == {<<320, 352>>, <<1280, 720>>, <<1920, 1080>>}

\* malloc(frame.width * frame.height * 3)
RgbBytes(wh) == wh[1] * wh[2] * 3

NeverDrawn == <<0, 0>>

\* no buffer; a buffer of n bytes
NoBuffer == [ptr |-> NULL, size |-> 0]

HeapBuffer(n) == [ptr |-> "heap", size |-> n]

NoRender == [path |-> "none", wh |-> NeverDrawn, converted |-> FALSE, room |-> 0]

RgbInit ==
    /\ rgb_buffer = NoBuffer
    /\ last_wh = NeverDrawn
    /\ hls_last_wh = NeverDrawn
    /\ last_wh_all = NeverDrawn
    /\ nrender = 0
    /\ rlast = NoRender

\* if (!rgb_buffer || last_w != width || last_h != height)
MustAllocate(last, wh) == rgb_buffer.ptr = NULL \/ last # wh

\* free(rgb_buffer); rgb_buffer = malloc(width * height * 3)
Allocated(wh, malloc_ok) == IF malloc_ok THEN HeapBuffer(RgbBytes(wh)) ELSE NoBuffer

\* yuv420_to_rgb24 writes width * height * 3 bytes to the buffer it is given
Converted(path, wh, room) == [path |-> path, wh |-> wh, converted |-> TRUE, room |-> room]

NotConverted(path, wh) == [path |-> path, wh |-> wh, converted |-> FALSE, room |-> 0]

\* the paths that return when the video output or the buffer cannot be had:
\* the last dimensions are recorded only behind a successful malloc
RenderOrReturn(path, last, wh, init_ok, malloc_ok) ==
    IF ~init_ok
    THEN [buffer |-> rgb_buffer, last |-> last, frame |-> NotConverted(path, wh)]
    ELSE IF ~MustAllocate(last, wh)
    THEN [buffer |-> rgb_buffer, last |-> last, frame |-> Converted(path, wh, rgb_buffer.size)]
    ELSE IF ~malloc_ok
    THEN [buffer |-> NoBuffer, last |-> last, frame |-> NotConverted(path, wh)]
    ELSE [buffer |-> HeapBuffer(RgbBytes(wh)), last |-> wh, frame |-> Converted(path, wh, RgbBytes(wh))]

\* process_h264_nal_unit, main.c:183-204
RenderNalFrame ==
    /\ nrender < MaxRenders
    /\ \E wh \in FrameSizes, init_ok \in BOOLEAN, malloc_ok \in BOOLEAN :
         LET r == RenderOrReturn("nal", last_wh, wh, init_ok, malloc_ok) IN
         /\ rgb_buffer' = r.buffer
         /\ last_wh' = r.last
         /\ rlast' = r.frame
    /\ nrender' = nrender + 1
    /\ UNCHANGED <<hls_last_wh, last_wh_all>>
    /\ UNCHANGED NotRgb

\* the decode of the whole segment at the top of the callback, main.c:247-270
RenderSegmentFrame ==
    /\ nrender < MaxRenders
    /\ \E wh \in FrameSizes, init_ok \in BOOLEAN, malloc_ok \in BOOLEAN :
         LET r == RenderOrReturn("segment", hls_last_wh, wh, init_ok, malloc_ok) IN
         /\ rgb_buffer' = r.buffer
         /\ hls_last_wh' = r.last
         /\ rlast' = r.frame
    /\ nrender' = nrender + 1
    /\ UNCHANGED <<last_wh, last_wh_all>>
    /\ UNCHANGED NotRgb

\* the feed of the whole PES payload, main.c:370-384: a failed set-up of the
\* video output is ignored, the last dimensions are recorded whatever malloc
\* returned, and the frame is converted if there is a buffer
RenderWholePesFrame ==
    /\ nrender < MaxRenders
    /\ \E wh \in FrameSizes, malloc_ok \in BOOLEAN :
         IF MustAllocate(last_wh_all, wh)
         THEN /\ rgb_buffer' = Allocated(wh, malloc_ok)
              /\ last_wh_all' = wh
              /\ rlast' = IF malloc_ok THEN Converted("whole_pes", wh, RgbBytes(wh))
                          ELSE NotConverted("whole_pes", wh)
         ELSE /\ rlast' = Converted("whole_pes", wh, rgb_buffer.size)
              /\ UNCHANGED <<rgb_buffer, last_wh_all>>
    /\ nrender' = nrender + 1
    /\ UNCHANGED <<last_wh, hls_last_wh>>
    /\ UNCHANGED NotRgb

RgbNext ==
    \/ RenderNalFrame
    \/ RenderSegmentFrame
    \/ RenderWholePesFrame

\* ========================================================================
\* The frame pool (memory_pool.c, memory_pool.h)
\* ========================================================================
FRAME_POOL_SIZE == 4

\* the two builds of frame_pool_create: with FFmpeg every slot gets its own
\* AVFrame, with NO_FFMPEG (the Makefile's default) every slot gets NULL
Builds == {"FFMPEG", "NO_FFMPEG"}

\* the pool sizes a caller may ask for
RequestedSizes == 0..(FRAME_POOL_SIZE + 1)

\* what av_frame_alloc returned for the slots 0..3
AVFrames == <<"frame0", "frame1", "frame2", "frame3">>

\* the pointers a caller may hand to return_frame_to_pool
ReturnArgs == {NULL, "frame0", "frame1", "frame2", "frame3", "stray"}

\* memset(pool->available, 1, sizeof(pool->available)) makes every int 0x01010101
AllOnes == 16843009

NoPool == [made |-> FALSE, pool_size |-> 0, frames |-> <<>>, available |-> <<>>]

NoPoolCall == [op |-> "none", frame |-> NULL, before |-> {}]

PoolInit ==
    /\ pool = NoPool
    /\ held = {}
    /\ plast = NoPoolCall

frame_pool_create(build, pool_size, alloc_ok) ==
    LET n == IF pool_size > FRAME_POOL_SIZE THEN FRAME_POOL_SIZE ELSE pool_size IN
    IF ~alloc_ok
    THEN NoPool
    ELSE [made |-> TRUE,
          pool_size |-> n,
          frames |-> [k \in 1..n |-> IF build = "FFMPEG" THEN AVFrames[k] ELSE NULL],
          available |-> [k \in 1..FRAME_POOL_SIZE |-> AllOnes]]

\* the slots the for loop of get_frame_from_pool would stop at
AvailableSlots(p) == {k \in 1..p.pool_size : p.available[k] # 0}

get_frame_from_pool(p) ==
    IF ~p.made \/ AvailableSlots(p) = {}
    THEN [pool |-> p, frame |-> NULL]
    ELSE LET k == Least(AvailableSlots(p)) IN
         [pool |-> [p EXCEPT !.available[k] = 0], frame |-> p.frames[k]]

\* the slots whose frame pointer equals the one given back
MatchingSlots(p, frame) == {k \in 1..p.pool_size : p.frames[k] = frame}

return_frame_to_pool(p, frame) ==
    IF ~p.made \/ frame = NULL \/ MatchingSlots(p, frame) = {}
    THEN p
    ELSE [p EXCEPT !.available[Least(MatchingSlots(p, frame))] = 1]

PoolCreate ==
    /\ ~pool.made
    /\ \E build \in Builds, pool_size \in RequestedSizes, alloc_ok \in BOOLEAN :
         pool' = frame_pool_create(build, pool_size, alloc_ok)
    /\ held' = {}
    /\ plast' = [NoPoolCall EXCEPT !.op = "create"]
    /\ UNCHANGED NotPool

PoolGet ==
    /\ LET r == get_frame_from_pool(pool) IN
         /\ pool' = r.pool
         /\ held' = IF r.frame # NULL THEN held \cup {r.frame} ELSE held
         /\ plast' = [op |-> "get", frame |-> r.frame, before |-> held]
    /\ UNCHANGED NotPool

PoolReturn ==
    /\ \E frame \in ReturnArgs :
         /\ pool' = return_frame_to_pool(pool, frame)
         /\ held' = held \ {frame}
         /\ plast' = [op |-> "return", frame |-> frame, before |-> held]
    /\ UNCHANGED NotPool

PoolNext ==
    \/ PoolCreate
    \/ PoolGet
    \/ PoolReturn

\* ========================================================================
\* The bytes parse_sps reads (simple_h264.c)
\* ========================================================================
MaxSpsTail == 4     \* bytes behind level_idc in the generated SPS units

\* NAL header, profile_idc, constraint flags, level_idc
SpsHeads == {<<103, 66, 0, 30>>, <<103, 100, 0, 30>>, <<103, 66, 66, 66>>}

\* bytes that make short, long, cut-off and all-zero Exp-Golomb codes
GolombBytes == {0, 1, 16, 64, 128, 255}

SpsTails == UNION {[1..n -> GolombBytes] : n \in 0..MaxSpsTail}

\* SPS units of 1 to 3 bytes, and longer ones with 24 to 64 leading zeros
ShortSps == {<<103>>, <<103, 66>>, <<103, 66, 0>>}
LongSps == {<<103, 66, 0, 30>> \o [k \in 1..n |-> IF k = n THEN 255 ELSE 0] : n \in {4, 8, 9}}

SpsInputs ==
    {h \o t : h \in SpsHeads, t \in SpsTails} \cup ShortSps \cup LongSps
        \cup {SpsShort, SpsHigh, SpsBaseline, SpsWide, SpsZeroWidth, SpsHuge}

\* the highest bit position one call of read_ue_golomb looks at: the leading
\* zeros loop stops at the first set bit or at bits_left, the value loop
\* runs only when the whole code fits
UeTopBit(bits_left, lz) ==
    IF 2 * lz + 1 > bits_left THEN Min(lz, bits_left - 1) ELSE 2 * lz

\* the highest index of data[] read by read_ue_golomb(&ptr, &bits_left) with
\* ptr = data + p; -1 when the call returns at bits_left == 0
UeTopByte(data, p, bits_left) ==
    IF bits_left = 0 THEN -1
    ELSE p + (UeTopBit(bits_left, LeadingZeros(data, p, bits_left)) \div 8)

\* the same for the call that follows the read r
TopByteAfter(data, r) == UeTopByte(data, r.ptr, r.bits_left)

\* ptr and bits_left behind the first, second, ... call of parse_sps
SpsStart(data) == [ptr |-> 4, bits_left |-> (Len(data) - 1) * 8 - 24]
AfterId(data) == read_ue_golomb(data, 4, (Len(data) - 1) * 8 - 24)
AfterFrameNum(data) == NextUe(data, AfterId(data))
AfterPocType(data) == NextUe(data, AfterFrameNum(data))
AfterRefFrames(data) == NextUe(data, PocLsb(data, AfterPocType(data)))
AfterWidth(data) == NextUe(data, SkipGapsFlag(AfterRefFrames(data)))

\* the highest index read by the calls of the baseline branch
BaselineTop(data) ==
    Greatest({TopByteAfter(data, AfterId(data)),
              TopByteAfter(data, AfterFrameNum(data)),
              IF AfterPocType(data).val = 0
                  THEN TopByteAfter(data, AfterPocType(data)) ELSE -1,
              TopByteAfter(data, PocLsb(data, AfterPocType(data))),
              TopByteAfter(data, SkipGapsFlag(AfterRefFrames(data))),
              TopByteAfter(data, AfterWidth(data))})

\* the highest index of data[] parse_sps reads: none when size < 4, else
\* ptr[2] = data[3], the seq_parameter_set_id and, for profile 66, the rest
SpsTopByte(data) ==
    IF Len(data) < 4 THEN -1
    ELSE Greatest({3, TopByteAfter(data, SpsStart(data)),
                   IF data[2] = 66 THEN BaselineTop(data) ELSE -1})

SpsInit ==
    /\ sps_nal = <<>>
    /\ sps_top = -1

\* one call of parse_sps(decoder, data, size)
ParseSps ==
    /\ sps_nal = <<>>
    /\ \E data \in SpsInputs :
         /\ sps_nal' = data
         /\ sps_top' = SpsTopByte(data)
    /\ UNCHANGED NotSps

MemInit == RgbInit /\ PoolInit /\ SpsInit

\* ========================================================================
\* Specifications
\* ========================================================================
\* a subsystem that is not exercised stays in its initial state
DecIdle == DecInit /\ codec = "simple_h264"
PaceIdle == PaceInit /\ player = "ffmpeg"

Init == HlsInit /\ DecInit /\ PaceInit /\ NalInit /\ TsInit /\ ParseInit /\ PickInit /\ MemInit
Next == HlsNext \/ DecNext \/ PaceNext \/ NalNext \/ TsNext \/ ParseNext \/ PickNext \/ RgbNext \/ PoolNext \/ ParseSps
Spec == Init /\ [][Next]_vars

\* hls_process_stream alone
InitHls == HlsInit /\ DecIdle /\ PaceIdle /\ NalInit /\ TsInit /\ ParseInit /\ PickInit /\ MemInit
SpecHls == InitHls /\ [][HlsNext]_vars

\* the decoders alone
InitDec == HlsInit /\ DecInit /\ PaceIdle /\ NalInit /\ TsInit /\ ParseInit /\ PickInit /\ MemInit
SpecDec == InitDec /\ [][DecNext]_vars

\* the frame paths alone
InitPace == HlsInit /\ DecIdle /\ PaceInit /\ NalInit /\ TsInit /\ ParseInit /\ PickInit /\ MemInit
SpecPace == InitPace /\ [][PaceNext]_vars

\* hls_segment_callback with the simple decoder on the HLS frame path
InitNal == HlsInit /\ DecIdle /\ PaceInit /\ player = "hls" /\ NalInit /\ TsInit /\ ParseInit /\ PickInit /\ MemInit
SpecNal == InitNal /\ [][NalNext]_vars

\* the transport-stream branch of hls_segment_callback
InitTs == HlsInit /\ DecIdle /\ PaceInit /\ player = "hls" /\ NalInit /\ TsInit /\ ParseInit /\ PickInit /\ MemInit
SpecTs == InitTs /\ [][TsNext]_vars

\* the playlist parser alone
InitParse == HlsInit /\ DecIdle /\ PaceIdle /\ NalInit /\ TsInit /\ ParseInit /\ PickInit /\ MemInit
SpecParse == InitParse /\ [][ParseNext]_vars

\* the render paths of the HLS callback alone
SpecRgb == InitHls /\ [][RgbNext]_vars

\* the frame pool alone
SpecPool == InitHls /\ [][PoolNext]_vars

\* parse_sps alone
SpecSps == InitHls /\ [][ParseSps]_vars

\* variant selection alone
InitPick == HlsInit /\ DecIdle /\ PaceIdle /\ NalInit /\ TsInit /\ ParseInit /\ PickInit /\ MemInit
SpecPick == InitPick /\ [][PickNext]_vars

\* ========================================================================
\* Claims about the playlist refresh loop (checked under SpecHls)
\* ========================================================================
Distinct(pl) == \A j, k \in 1..Len(pl) : j # k => pl[j] # pl[k]

Occurrences(pl, url) == Cardinality({k \in 1..Len(pl) : pl[k] = url})

\* 1-based position of the first occurrence of url in pl (0 when absent)
FirstPos(pl, url) ==
    IF \E k \in 1..Len(pl) : pl[k] = url
    THEN CHOOSE k \in 1..Len(pl) : pl[k] = url /\ \A j \in 1..Len(pl) : pl[j] = url => k <= j
    ELSE 0

\* the step being taken invokes the segment callback
CallbackStep == hpc = "segment" /\ hlast'.op = "segment_ok" /\ hlast'.called

\* C1: across playlist refreshes no segment URI is handed to the consumer a
\* second time, whatever the refreshed playlist looks like (here: even when
\* every playlist lists each URI only once), and within a pass the segments
\* are taken in ascending playlist order.
C1_NeverDispatchedTwice ==
    [][ /\ (CallbackStep /\ Distinct(playlist) => playlist[i + 1] \notin delivered)
        /\ (hpc = "segment" /\ hpc' = "segment" => i' = i + 1) ]_vars

C3_FetchFailures ==
    [][ /\ (hlast'.op = "playlist_fail"
               => hpc' = "done" /\ hret' = "HLS_ERROR_NETWORK" /\ delivered' = delivered)
        /\ (hpc = "done" => UNCHANGED hlsVars)
        /\ (hlast'.op = "segment_fail"
               => /\ ~hlast'.called
                  /\ delivered' = delivered /\ example'.log = example.log
                  /\ playlist' = playlist /\ i' = i + 1
                  /\ hret' = "none"
                  /\ hpc' = (IF i + 1 < Len(playlist) THEN "segment" ELSE "sleep")) ]_vars

C3_Witness ==
    /\ hlast.op = "segment_fail" /\ hpc = "segment" /\ i < Len(playlist) /\ hret = "none"

\* C4: when the callback returns a non-zero value the function returns
\* (HLS_OK) and neither the callback nor any download happens afterwards.
C4_StopEndsLoop ==
    [][ /\ (hlast'.op = "segment_ok" /\ hlast'.called /\ hlast'.cb # 0
               => hpc' = "done" /\ hret' = "HLS_OK")
        /\ (hpc = "done" => UNCHANGED hlsVars) ]_vars

C4_Witness ==
    /\ hlast.op = "segment_ok" /\ hlast.called /\ hlast.cb = -1
    /\ hpc = "done" /\ hret = "HLS_OK" /\ i + 1 < Len(playlist)

\* C5 (as claimed): for every segment whose download succeeds, whatever the
\* size of the body, the callback is invoked once with the body's bytes.
C5_CalledForEveryBody ==
    hlast.op = "segment_ok" => hlast.called /\ hlast.cbdata = hlast.body

\* C5 (amended): for every segment whose download succeeds with a non-empty
\* body the callback is invoked once with exactly the body's bytes; a
\* download that yields an empty body is skipped without invoking it.
C5_CalledForNonEmptyBody ==
    hlast.op = "segment_ok" =>
        IF Len(hlast.body) > 0
        THEN hlast.called /\ hlast.cbdata = hlast.body
        ELSE ~hlast.called

C5_Witness ==
    hlast.op = "segment_ok" /\ hlast.called /\ Len(hlast.body) = 2 /\ hlast.cbdata = hlast.body

\* ========================================================================
\* Claims about the H.264 state machines (checked under SpecDec)
\* ========================================================================
\* the step being taken is a decoder call with a slice NAL (type 1 or 5)
SimpleSliceStep == dlast'.op = "simple_h264_decode" /\ IsSlice(dlast'.nal)

OpenH264SliceStep == dlast'.op = "openh264_decode_nal" /\ IsSlice(dlast'.nal)

\* C6: a slice NAL (type 1 or 5) processed while the SPS or the PPS is not
\* valid returns the parameter-set error, writes no frame and leaves the
\* decoder state (validity flags, width, height and everything else) as it
\* was; this holds for simple_h264_decode and for openh264_decode_nal.
C6_SliceWithoutParamSets ==
    [][ /\ (SimpleSliceStep /\ (decoder.sps_valid = 0 \/ decoder.pps_valid = 0)
              => /\ dlast'.result = SIMPLE_H264_PARAM_SET_ERROR
                 /\ ~dlast'.frame.set
                 /\ decoder' = decoder)
        /\ (OpenH264SliceStep /\ (ctx.sps_valid = 0 \/ ctx.pps_valid = 0)
              => /\ dlast'.result = OPENH264_PARAM_SET_ERROR
                 /\ ~dlast'.frame.set
                 /\ ctx' = ctx) ]_vars

\* a slice was refused although an SPS had been accepted (the PPS is missing)
C6_Witness ==
    /\ dlast.op = "simple_h264_decode" /\ IsSlice(dlast.nal) /\ dlast.frame_out
    /\ dlast.result = SIMPLE_H264_PARAM_SET_ERROR
    /\ decoder.sps_valid = 1 /\ decoder.pps_valid = 0 /\ decoder.width = 320

\* C7: in every reachable state of the simple decoder in which an SPS and a
\* PPS have been accepted, a slice NAL (type 1 or 5) processed with a frame
\* output returns FRAME_READY and the frame carries the decoder's width and
\* height (stated here for the calls whose buffer allocation does not fail).
C7_SliceGivesFrameReady ==
    [][ SimpleSliceStep /\ decoder.sps_valid = 1 /\ decoder.pps_valid = 1
          /\ dlast'.frame_out /\ dlast'.malloc_ok
          => /\ dlast'.result = SIMPLE_H264_FRAME_READY
             /\ dlast'.frame.set
             /\ dlast'.frame.width = decoder.width
             /\ dlast'.frame.height = decoder.height ]_vars

\* ========================================================================
\* Claims about frame pacing (checked under SpecPace)
\* ========================================================================
\* displayed, drop, drop, drop, displayed, ... : the fate of the k-th event
SkipPattern(k) == IF (k - 1) % (FRAMESKIP_AMOUNT + 1) = 0 THEN "displayed" ELSE "drop"

CountOf(seq, what) == Cardinality({k \in 1..Len(seq) : seq[k] = what})

\* the step being taken handles one frame-ready event
FrameStep == Len(events') = Len(events) + 1

C10_ExampleYieldsTwoUnits ==
    nlast.payload = ExamplePayload /\ nlast.ret = 0 /\ ~should_quit
        => nlast.delivered = <<SpsShort, PpsShort>>

\* ------------------------------------------------------------------------
\* C11
\* ------------------------------------------------------------------------
\* 00 00 01 at the 0-based offset p
StartCodeAt(buf, p) ==
    p >= 0 /\ p + 3 <= Len(buf) /\ B(buf, p) = 0 /\ B(buf, p + 1) = 0 /\ B(buf, p + 2) = 1

\* the NAL units an Annex-B byte stream contains: the bytes between one start
\* code and the next (less the zero byte that turns the next one into a
\* four-byte start code), the last unit reaching to the end of the stream
RECURSIVE ContainedFrom(_, _)
ContainedFrom(buf, sc) ==
    LET later == {p \in (sc + 3)..(Len(buf) - 3) : StartCodeAt(buf, p)}
    IN IF later = {}
       THEN IF sc + 3 < Len(buf) THEN <<SubSeq(buf, sc + 4, Len(buf))>> ELSE <<>>
       ELSE LET nx == Least(later)
                last == IF nx > sc + 3 /\ B(buf, nx - 1) = 0 THEN nx - 1 ELSE nx
            IN (IF last > sc + 3 THEN <<SubSeq(buf, sc + 4, last)>> ELSE <<>>)
               \o ContainedFrom(buf, nx)

\* a payload in Annex-B format: it opens with a three- or four-byte start code
OpensWithStartCode(buf) ==
    StartCodeAt(buf, 0) \/ (Len(buf) > 0 /\ B(buf, 0) = 0 /\ StartCodeAt(buf, 1))

ContainedUnits(buf) ==
    IF StartCodeAt(buf, 0) THEN ContainedFrom(buf, 0)
    ELSE IF OpensWithStartCode(buf) THEN ContainedFrom(buf, 1)
    ELSE LengthPrefixedUnits(buf)

\* C11: after the flush of an elementary-stream payload in Annex-B or
\* length-prefixed format in which a slice was processed, every SPS and PPS
\* the payload contains has been processed, and before the first slice
C11_ParamSetsBeforeSlices ==
    (/\ nlast.op \in {"pes", "final"}
     /\ nlast.ret = 0
     /\ OpensWithStartCode(nlast.payload) \/ LengthPrefixedUnits(nlast.payload) # <<>>)
    => LET del == nlast.delivered
           units == ContainedUnits(nlast.payload)
           slices == {k \in DOMAIN del : IsSlice(del[k])}
       IN slices # {} =>
            \A n \in DOMAIN units :
               is_parameter_set(units[n]) =>
                  \E j \in DOMAIN del : del[j] = units[n] /\ \A k \in slices : j < k

\* ------------------------------------------------------------------------
\* C12, C13
\* ------------------------------------------------------------------------
\* the packets that carry payload on the video PID, in order
VideoPackets(ds) == SelectSeq(ds, LAMBDA d : d.pid = VideoPid /\ ~d.adapt_only)

\* every packet well-formed, and the video PID carries one PES packet whose
\* header lies within its first (unit-start) payload
OnePesPacket(ds) ==
    /\ \A k \in DOMAIN ds : ds[k].sync = TS_SYNC_BYTE
    /\ VideoPackets(ds) # <<>>
    /\ \A k \in DOMAIN VideoPackets(ds) :
          IF k = 1
          THEN VideoPackets(ds)[k].pusi /\ VideoPackets(ds)[k].header >= 9
          ELSE ~VideoPackets(ds)[k].pusi

\* the payload bytes of the PES packet: what follows the header, packet by packet
RECURSIVE PesPayload(_)
PesPayload(vs) ==
    IF vs = <<>> THEN <<>>
    ELSE SubSeq(Head(vs).payload, Head(vs).header + 1, Len(Head(vs).payload))
         \o PesPayload(Tail(vs))

\* C12: when the callback has demultiplexed a buffer whose video PID carries
\* one PES packet with its header inside the first unit-start payload (no
\* realloc failed, the user did not quit), the one PES buffer it assembled and
\* flushed is exactly the payload bytes of the PES packet, without any header
\* byte; a buffer without payload bytes is not flushed
C12_PesReassembled ==
    (tpc = "done" /\ tret = 0 /\ ~tfail /\ OnePesPacket(desc))
    => flushed = IF PesPayload(VideoPackets(desc)) = <<>> THEN <<>>
                 ELSE <<PesPayload(VideoPackets(desc))>>

\* a three-packet buffer with a PES header followed by 01 02 03 was
\* reassembled to those three bytes, and a PES packet spread over three
\* packets to its payload
C12_Witness ==
    /\ tpc = "done"
    /\ tret = 0
    /\ \/ desc = <<AStart, VStart123, AdaptOnly>> /\ flushed = << <<1, 2, 3>> >>
       \/ desc = <<VStart123, VCont45, VCont45>> /\ flushed = << <<1, 2, 3, 4, 5, 4, 5>> >>

\* the PES buffers the packet loop and the final flush hand on for a buffer,
\* when no realloc fails and no flush ends the call
RECURSIVE DemuxFrom(_, _, _, _, _)
DemuxFrom(s, p, vp, buf, fl) ==
    IF p + TS_PACKET_SIZE > Len(s)
    THEN IF Len(buf) > 0 THEN Append(fl, buf) ELSE fl
    ELSE LET pkt == SubSeq(s, p + 1, p + TS_PACKET_SIZE)
             nvp == IF PacketSkipped(pkt) THEN vp ELSE DetectedPid(vp, pkt, PayloadOf(pkt))
         IN IF PacketSkipped(pkt) \/ nvp = -1 \/ PidOf(pkt) # nvp
            THEN DemuxFrom(s, p + TS_PACKET_SIZE, nvp, buf, fl)
            ELSE IF PayloadUnitStart(pkt) /\ Len(buf) > 0
            THEN DemuxFrom(s, p + TS_PACKET_SIZE, nvp, Addition(pkt, PayloadOf(pkt)).bytes,
                           Append(fl, buf))
            ELSE DemuxFrom(s, p + TS_PACKET_SIZE, nvp,
                           buf \o Addition(pkt, PayloadOf(pkt)).bytes, fl)

PesBuffersOf(s) ==
    IF LooksLikeTs(s) THEN DemuxFrom(s, SyncOffset(s), -1, <<>>, <<>>) ELSE <<>>

WellFormedPackets(ds) == SelectSeq(ds, LAMBDA d : d.sync = TS_SYNC_BYTE)

\* C13: when the callback has gone through a buffer that holds packets with a
\* wrong sync byte (no realloc failed, the user did not quit), the PES buffers
\* it assembled and flushed are those of the same buffer without these packets
C13_BadSyncSkipped ==
    (tpc = "done" /\ tret = 0 /\ ~tfail /\ WellFormedPackets(desc) # desc)
    => flushed = PesBuffersOf(BytesOf(WellFormedPackets(desc)))

\* ------------------------------------------------------------------------
\* Playlist parsing
\* ------------------------------------------------------------------------
HasPrefix(s, p) == Len(s) >= Len(p) /\ SubSeq(s, 1, Len(p)) = p

\* a URL that names its scheme and host itself
AbsoluteUrl(u) == u # NullStr /\ (HasPrefix(u, SchemeHttp) \/ HasPrefix(u, SchemeHttps))

\* a text without a variant tag
MediaSource(src) == \A k \in 1..Len(src.lines) : src.lines[k].kind # "stream_inf"

RECURSIVE UrisOf(_)
UrisOf(lines) ==
    IF lines = <<>> THEN <<>>
    ELSE (IF lines[1].kind = "uri" THEN <<lines[1].uri>> ELSE <<>>) \o UrisOf(Tail(lines))

\* the parse went through without a failed allocation
ParsedOk == ppc \in {"parsed", "done"} /\ pret = "HLS_OK" /\ ~pfail

\* C14: for every media playlist text parsed with an absolute base URL, the
\* parsed segments are the URI lines of the text in their order, and every
\* URL resolved for fetching a segment is absolute.
C14_SegmentsInOrderAbsolute ==
    (ParsedOk /\ MediaSource(source) /\ AbsoluteUrl(parsed.base_url)) =>
        /\ [k \in 1..Len(parsed.segments) |-> parsed.segments[k].url] = UrisOf(source.lines)
        /\ \A k \in 1..Len(fetched) : AbsoluteUrl(fetched[k])

\* a media playlist with a relative and a padded URI line has been parsed
\* and both its segments resolved
C14_Witness ==
    /\ ParsedOk /\ ppc = "done"
    /\ source = PlaylistSource(<<LExtM3U, LTargetDuration, LExtInf, LSegRelative, LExtInf10,
                                 LSegPadded, LEndList>>, TRUE)
    /\ fetched = << <<"h", "t", "t", "p", ":", "/", "/", "h", "/", "p", "/", "a", ".", "t", "s">>, <<"h", "t", "t", "p", ":", "/", "/", "h", "/", "p", "/", "c", ".", "t", "s">> >>

\* C15: the kind of a playlist is fixed by the first recognised tag: once a
\* line has set it to Media, no later line of the text changes it (in
\* particular a later #EXT-X-STREAM-INF: line does not make it Master).
C15_KindStaysMedia ==
    [][(ppc = "lines" /\ parsed.type = "HLS_PLAYLIST_MEDIA") =>
           parsed'.type = "HLS_PLAYLIST_MEDIA"]_vars

\* the lines of a text that are not unrecognised tags
RECURSIVE WithoutUnknown(_)
WithoutUnknown(lines) ==
    IF lines = <<>> THEN <<>>
    ELSE (IF lines[1].kind = "unknown" THEN <<>> ELSE <<lines[1]>>) \o WithoutUnknown(Tail(lines))

\* what a parse leaves of a playlist: kind, segment URIs and durations, variants
Outcome(pl) == [type |-> pl.type, segments |-> pl.segments, variants |-> pl.variants]

\* C16: lines that begin with '#' and match none of the recognised tags do
\* not change the result: the text parses with HLS_OK to the kind, segment
\* URIs and durations, and variants of the same text without those lines.
C16_UnknownTagsIgnored ==
    (ppc \in {"parsed", "done"} /\ ~pfail) =>
        /\ pret = "HLS_OK"
        /\ Outcome(parsed) =
             Outcome(ParsedPlaylist(TextOf(PlaylistSource(WithoutUnknown(source.lines), source.closed)),
                                    parsed.base_url))

\* a text with two unrecognised tag lines among its segments has been parsed
C16_Witness ==
    /\ ppc = "done" /\ ~pfail
    /\ source = PlaylistSource(<<LExtM3U, LNearTag, LExtInf, LEndList, LSegAbsolute, LSegRelative>>, TRUE)
    /\ Len(parsed.segments) = 2
    /\ parsed.segments[2].duration = [whole |-> 9, frac |-> <<"5">>]

\* some line of the text is a variant tag, blanks before it or not
HasStreamInfLine(src) == \E k \in 1..Len(src.lines) : src.lines[k].kind = "stream_inf"

\* C20: hls_is_master_playlist returns true exactly when some line of the
\* text, after leading spaces, tabs or carriage returns, begins with
\* #EXT-X-STREAM-INF:, and false otherwise.
C20_IsMasterMatchesTag ==
    (is_master # "unset") => (is_master = "true" <=> HasStreamInfLine(source))

\* ------------------------------------------------------------------------
\* Variant selection
\* ------------------------------------------------------------------------
\* a is declared shorter than b; a variant without a declared height is
\* taller than every variant that declares one
Shorter(a, b) == a.has_h /\ (~b.has_h \/ a.h < b.h)
SameHeight(a, b) == ~Shorter(a, b) /\ ~Shorter(b, a)

\* the URI a variant is known under once it is resolved against the URL
\* of the master playlist
ExpectedUri(v) == IF HasPrefix(v.uri, SchemeHttps) THEN v.uri ELSE <<"h", "t", "t", "p", "s", ":", "/", "/", "u", "/", "a", "p", "i", "/">> \o v.uri

\* a selection has returned and no allocation failed
Picked == kpc = "done" /\ ~kfail /\ master # <<>>

\* the variants the URI returned last belongs to
SelectedVariants == {k \in 1..Len(master) : picks[Len(picks)] = ExpectedUri(master[k])}

\* C17: for every master playlist with at least one variant the selected
\* variant has the smallest declared height among all variants, a variant
\* without a declared height counting as infinitely tall.
C17_SmallestHeight ==
    Picked => \E k \in SelectedVariants : \A j \in 1..Len(master) : ~Shorter(master[j], master[k])

\* the lowest variant was picked although an audio-only variant and a
\* higher one stand before it
C17_Witness ==
    /\ Picked
    /\ master = <<VAudioOnly, VHigh, VLow>>
    /\ picks[1] = <<"h", "t", "t", "p", "s", ":", "/", "/", "u", "/", "a", "p", "i", "/", "l", "o", "w", ".", "m", "3", "u", "8">>

\* C18: among the variants that share the smallest height the selected one
\* has the smallest declared non-zero bandwidth; a variant with 0 or absent
\* bandwidth is not selected when another variant of that height declares
\* a non-zero bandwidth, wherever it stands in the playlist.
C18_SmallestBandwidth ==
    Picked => \E k \in SelectedVariants :
                 /\ \A j \in 1..Len(master) : ~Shorter(master[j], master[k])
                 /\ \A j \in 1..Len(master) :
                        (SameHeight(master[j], master[k]) /\ master[j].bw # 0) =>
                            (master[k].bw # 0 /\ master[k].bw <= master[j].bw)

C21_QuitStopsScan == nlast.late = 0

\* ------------------------------------------------------------------------
\* Allocation failures in the refresh loop
\* ------------------------------------------------------------------------
\* C22: every allocation failure met while a playlist or a segment is
\* processed ends the session: hls_process_stream returns the memory error
\* instead of going on with the next unit.
C22_AllocationFailureFatal ==
    [][hlast'.op \in {"playlist_nomem", "segment_nomem"} =>
           (hpc' = "done" /\ hret' = "HLS_ERROR_MEMORY")]_vars

\* ------------------------------------------------------------------------
\* Start index when the last dispatched segment is gone
\* ------------------------------------------------------------------------
\* C23: when the URI of the segment dispatched last is not in the freshly
\* parsed playlist, dispatch starts at the previous playlist's segment
\* count, clamped to the new segment count.
C23_FallsBackToLastCount ==
    [][(/\ hlast'.op = "playlist_ok"
        /\ last_processed_url # NULL
        /\ \A k \in 1..Len(playlist') : playlist'[k] # last_processed_url)
       => i' = Min(last_count, Len(playlist'))]_vars

\* ------------------------------------------------------------------------
\* Transport-stream detection
\* ------------------------------------------------------------------------
\* three packets 188 bytes apart all begin with the sync byte
ThreePacketsInSync(s) ==
    \E off \in 0..Len(s) :
        /\ off + 3 * 188 <= Len(s)
        /\ s[off + 1] = 71 /\ s[off + 188 + 1] = 71 /\ s[off + 2 * 188 + 1] = 71

\* C24: a segment buffer is demultiplexed as a transport stream exactly
\* when three packets 188 bytes apart all begin with 0x47; every other
\* buffer goes to the raw NAL extraction. (A callback that ends at its
\* entry, on a quit or after a picture, takes neither way.)
C24_TsExactlyWhenThreeSyncs ==
    [][/\ (tpc = "idle" /\ tpc' = "loop") => ThreePacketsInSync(seg')
       /\ (/\ tpc = "idle" /\ tpc' = "done" /\ tret' = 0
           /\ ~should_quit' /\ frames_displayed' = frames_displayed)
          => ~ThreePacketsInSync(seg')]_vars
\* ------------------------------------------------------------------------
\* The video PID of a segment buffer
\* ------------------------------------------------------------------------
\* the packet the loop stands at
PacketHere == SubSeq(seg, pos + 1, pos + TS_PACKET_SIZE)

\* a packet whose payload begins with 00 00 01 and a stream-id in 0xE0..0xEF
BeginsVideoPes(pkt) ==
    /\ ~PacketSkipped(pkt)
    /\ Len(PayloadOf(pkt)) >= 4
    /\ PesStartCode(PayloadOf(pkt))
    /\ PayloadOf(pkt)[4] \div 16 = 14

\* such a packet that has payload_unit_start set and a payload of 6 bytes or more
StartsVideoPes(pkt) ==
    /\ BeginsVideoPes(pkt)
    /\ PayloadUnitStart(pkt)
    /\ Len(PayloadOf(pkt)) >= 6

\* the PID of the first packet of s in [p, end) that begins a video PES
\* (with unit start and length looked at when strict), -1 when there is none
RECURSIVE FirstPidFrom(_, _, _, _)
FirstPidFrom(s, p, end, strict) ==
    IF p + TS_PACKET_SIZE > Len(s) \/ p >= end
    THEN -1
    ELSE IF (IF strict THEN StartsVideoPes(SubSeq(s, p + 1, p + TS_PACKET_SIZE))
                       ELSE BeginsVideoPes(SubSeq(s, p + 1, p + TS_PACKET_SIZE)))
    THEN PidOf(SubSeq(s, p + 1, p + TS_PACKET_SIZE))
    ELSE FirstPidFrom(s, p + TS_PACKET_SIZE, end, strict)

\* over the packets the loop has gone through
ScannedPid(strict) ==
    IF tpc \in {"loop", "final", "done"} /\ LooksLikeTs(seg)
    THEN FirstPidFrom(seg, SyncOffset(seg), pos, strict)
    ELSE -1

\* once set, the PID stays until the callback returns
PidKept == (video_pid # -1 /\ tpc' # "idle") => video_pid' = video_pid


\* a turn of the loop that changes the PES buffer stands at a packet of the
\* video PID, and what it leaves in the buffer ends with bytes of that
\* packet's payload
OnlyVideoAppended ==
    (tpc = "loop" /\ pos + TS_PACKET_SIZE <= Len(seg) /\ pes_buf' # pes_buf)
    => /\ ~PacketSkipped(PacketHere)
       /\ PidOf(PacketHere) = video_pid'
       /\ \E k \in 0..Len(PayloadOf(PacketHere)) :
            LET tail == SubSeq(PayloadOf(PacketHere), k + 1, Len(PayloadOf(PacketHere)))
            IN pes_buf' \in {<<>>, tail, pes_buf \o tail}

\* C25 (as stated): within one segment buffer the video PID is that of the
\* first packet whose payload begins with 00 00 01 and a stream-id in
\* 0xE0..0xEF; once set it never changes, and only payloads of packets with
\* that PID are appended to the PES buffer
C25_FirstStartCodeFixesPid ==
    [][/\ video_pid' = ScannedPid(FALSE)'
       /\ PidKept
       /\ OnlyVideoAppended]_vars

\* C25 (amended): within one segment buffer the video PID is that of the
\* first packet with payload_unit_start set whose payload has at least 6
\* bytes and begins with 00 00 01 and a stream-id in 0xE0..0xEF; once set it
\* never changes, and only payloads of packets with that PID are appended to
\* the PES buffer
C25_VideoPidFixedOnce ==
    [][/\ video_pid' = ScannedPid(TRUE)'
       /\ PidKept
       /\ OnlyVideoAppended]_vars

\* a buffer with video PES starts on two PIDs went through: the first PID was
\* kept and the payloads of its two packets were assembled
C25_Witness ==
    /\ tpc = "done"
    /\ tret = 0
    /\ desc = <<VStart123, V2Start, VCont45>>
    /\ video_pid = VideoPid
    /\ flushed = << <<1, 2, 3, 4, 5>> >>
\* ------------------------------------------------------------------------
\* Adaptation fields
\* ------------------------------------------------------------------------
\* the loop stands at a packet
AtPacket == tpc = "loop" /\ pos + TS_PACKET_SIZE <= Len(seg)

\* the turn of the loop takes nothing from the packet
NothingTaken == pes_buf' = pes_buf /\ flushed' = flushed /\ video_pid' = video_pid

\* the bytes of the packet behind the 4 header bytes, the length byte and the
\* adaptation field
BehindAdaptationField(pkt) == SubSeq(pkt, 4 + 1 + pkt[5] + 1, TS_PACKET_SIZE)

\* C26: a packet with adaptation_field_control 2 contributes no payload; one
\* with control value 3 contributes nothing when 4 + 1 + adaptation_field_length
\* reaches or passes the end of the 188-byte packet, and otherwise exactly the
\* bytes behind that offset: they are what a packet of the video PID that
\* starts no unit adds to the PES buffer, and what is taken from any packet
\* lies among them
C26_AdaptationFieldSkipped ==
    [][AtPacket =>
        /\ AdaptationFieldControl(PacketHere) = 2 => NothingTaken
        /\ (AdaptationFieldControl(PacketHere) = 3 /\ 4 + 1 + PacketHere[5] >= TS_PACKET_SIZE)
           => NothingTaken
        /\ (/\ AdaptationFieldControl(PacketHere) = 3
            /\ 4 + 1 + PacketHere[5] < TS_PACKET_SIZE
            /\ PacketHere[1] = TS_SYNC_BYTE)
           => /\ (/\ ~PayloadUnitStart(PacketHere)
                  /\ video_pid # -1
                  /\ PidOf(PacketHere) = video_pid
                  /\ tpc' = "loop")
                 => pes_buf' = pes_buf \o BehindAdaptationField(PacketHere)
              /\ pes_buf' # pes_buf
                 => \E k \in 0..Len(BehindAdaptationField(PacketHere)) :
                      pes_buf' \in
                        {<<>>,
                         SubSeq(BehindAdaptationField(PacketHere), k + 1,
                                Len(BehindAdaptationField(PacketHere))),
                         pes_buf \o SubSeq(BehindAdaptationField(PacketHere), k + 1,
                                           Len(BehindAdaptationField(PacketHere)))}]_vars

\* a buffer went through in which a PES start and a continuation, both behind
\* adaptation fields, are separated by a packet whose adaptation field fills
\* it, one whose adaptation_field_length points behind it and one with
\* adaptation_field_control 2: the payloads of the first and the last were
\* assembled
C26_Witness ==
    /\ tpc = "done"
    /\ tret = 0
    /\ desc = <<VStart123, VContNone, VContOverlong, AdaptOnly, VCont45>>
    /\ flushed = << <<1, 2, 3, 4, 5>> >>
\* ------------------------------------------------------------------------
\* The flushes of the PES buffer
\* ------------------------------------------------------------------------
\* the order in which the two passes hand units on: parameter sets first
PassOrder(units) ==
    SelectSeq(units, is_parameter_set) \o SelectSeq(units, LAMBDA u : ~is_parameter_set(u))

\* C27: the final flush of a PES buffer delivers the NAL units that the flush
\* by a unit-start packet delivers for the same payload bytes, be they in
\* Annex-B or in 4-byte length-prefixed format
C27_FinalFlushSameUnits ==
    nlast.op = "final" => nlast.delivered = PassOrder(UnitsOf(nlast.payload, "pes"))
\* ------------------------------------------------------------------------
\* The segment that is not a transport stream
\* ------------------------------------------------------------------------
\* C28: for a segment that is not a transport stream the callback, when it
\* returns 0, has delivered the NAL units that the flush of the same bytes as
\* a PES payload delivers: Annex-B or length-prefixed as detected, and every
\* unit of the buffer, those behind the first drawn slice included
C28_FallbackSameUnits ==
    (nlast.op = "fallback" /\ nlast.ret = 0)
    => nlast.delivered = PassOrder(UnitsOf(nlast.payload, "pes"))
\* ------------------------------------------------------------------------
\* Parameter sets and reset
\* ------------------------------------------------------------------------
\* the step being taken is a call of simple_h264_decode with an SPS (type 7)
SimpleSpsStep ==
    /\ dlast'.op = "simple_h264_decode"
    /\ Len(dlast'.nal) > 0
    /\ simple_h264_get_nal_type(dlast'.nal) = NAL_SPS

\* C29: a NAL unit of type 7, whatever its length and content, is stored as
\* the current SPS (the SPS is valid afterwards) and the call returns
\* HEADERS_READY
C29_SpsAlwaysStored ==
    [][SimpleSpsStep
       => /\ dlast'.result = SIMPLE_H264_HEADERS_READY
          /\ decoder'.sps_valid = 1]_vars

\* C30: openh264_decoder_reset clears the validity of SPS and PPS and the
\* frame-ready flag, and leaves the width and height parsed before as they
\* were
C30_ResetKeepsDimensions ==
    [][dlast'.op = "openh264_decoder_reset"
       => /\ ctx'.sps_valid = 0
          /\ ctx'.pps_valid = 0
          /\ ctx'.frame_ready = 0
          /\ ctx'.width = ctx.width
          /\ ctx'.height = ctx.height]_vars
\* ------------------------------------------------------------------------
\* Length-prefixed extraction
\* ------------------------------------------------------------------------
\* the units of a length-prefixed payload when a unit of length zero is
\* passed over and the scan goes on behind its 4 length bytes
RECURSIVE UnitsPassingEmpty(_, _)
UnitsPassingEmpty(buf, p) ==
    IF ~(p + 4 <= Len(buf)) THEN <<>>
    ELSE IF B(buf, p) = 0 /\ B(buf, p + 1) = 0 /\ B(buf, p + 2) = 0 /\ B(buf, p + 3) = 0
    THEN UnitsPassingEmpty(buf, p + 4)
    ELSE IF B(buf, p) # 0 \/ B(buf, p + 1) # 0
            \/ p + 4 + B(buf, p + 2) * 256 + B(buf, p + 3) > Len(buf)
    THEN <<>>
    ELSE <<SubSeq(buf, p + 5, p + 4 + B(buf, p + 2) * 256 + B(buf, p + 3))>>
         \o UnitsPassingEmpty(buf, p + 4 + B(buf, p + 2) * 256 + B(buf, p + 3))

\* C31: the flush of a length-prefixed PES payload drops a unit of length zero
\* and goes on with the unit behind it: when it returns 0 it has delivered
\* every unit of the payload, those behind the empty one included
C31_ZeroLengthPassedOver ==
    (nlast.op = "pes" /\ nlast.ret = 0 /\ ~HasStartCodes(nlast.payload))
    => nlast.delivered = PassOrder(UnitsPassingEmpty(nlast.payload, 0))
\* ------------------------------------------------------------------------
\* What reaches the decoder
\* ------------------------------------------------------------------------
\* the step leaves the parameter sets and the dimensions of the decoder alone
HeadersUntouched ==
    /\ decoder'.sps_valid = decoder.sps_valid
    /\ decoder'.pps_valid = decoder.pps_valid
    /\ decoder'.width = decoder.width
    /\ decoder'.height = decoder.height

\* C32: the decoder interprets as NAL units only the byte ranges that NAL
\* extraction delimits: the entry of the callback with a transport-stream
\* segment (first byte 0x47), before any packet is looked at, leaves SPS
\* validity, PPS validity, width and height as they were, and so does the
\* in-loop flush of a PES payload in which extraction finds no unit
C32_OnlyDelimitedUnits ==
    [][/\ (tpc = "idle" /\ tpc' = "loop") => HeadersUntouched
       /\ (/\ tpc = "loop" /\ Len(flushed') = Len(flushed) + 1
           /\ UnitsOf(pes_buf, "pes") = <<>>)
          => HeadersUntouched]_vars
\* ------------------------------------------------------------------------
\* The RGB buffer (checked under SpecRgb)
\* ------------------------------------------------------------------------
\* C33: whenever a frame of width w and height h is converted into the RGB
\* buffer, the buffer holds at least w * h * 3 bytes, whatever frames went
\* through the three render paths before
C33_RgbBufferHoldsFrame ==
    rlast.converted => rlast.room >= RgbBytes(rlast.wh)
\* ------------------------------------------------------------------------
\* The skip counter (checked under SpecPace)
\* ------------------------------------------------------------------------
\* C35: in the playback loops skip_remaining stays within 0..FRAMESKIP_AMOUNT,
\* and a frame is rendered only by a step taken with skip_remaining = 0
C35_SkipCounterInRange ==
    [][/\ skip_remaining' \in 0..FRAMESKIP_AMOUNT
       /\ frames_displayed' # frames_displayed => skip_remaining = 0]_vars

\* the counter went from FRAMESKIP_AMOUNT down to 0 and a second frame was
\* rendered, which set it to FRAMESKIP_AMOUNT again
C35_Witness ==
    /\ player \in {"ffmpeg", "ffmpeg_legacy"}
    /\ events = <<"displayed", "drop", "drop", "drop", "displayed">>
    /\ frames_displayed = 2
    /\ frames_dropped = FRAMESKIP_AMOUNT
    /\ skip_remaining = FRAMESKIP_AMOUNT
\* ------------------------------------------------------------------------
\* The frame buffer of the simple decoder (checked under SpecDec)
\* ------------------------------------------------------------------------
\* size >= w * h * 3 / 2, computed without the product: w * h * 3 <= 2 * size + 1
HoldsPlanes(size, w, h) == w > 0 /\ h <= ((2 * size + 1) \div 3) \div w

\* C34: when simple_h264_decode returns FRAME_READY, the frame buffer holds at
\* least width * height * 3 / 2 bytes for the width and height of the frame
C34_FrameBufferHoldsPlanes ==
    (dlast.op = "simple_h264_decode" /\ dlast.result = SIMPLE_H264_FRAME_READY)
    => HoldsPlanes(decoder.frame_buffer_size, dlast.frame.width, dlast.frame.height)
\* ------------------------------------------------------------------------
\* The last NAL unit of an Annex-B payload
\* ------------------------------------------------------------------------
\* a start code 00 00 01 or 00 00 00 01 that lies within the payload
WholeStartCodeAt(buf, p) ==
    \/ p + 3 <= Len(buf) /\ IsStartCode3(buf, p)
    \/ p + 4 <= Len(buf) /\ B(buf, p) = 0 /\ B(buf, p + 1) = 0 /\ B(buf, p + 2) = 0
                         /\ B(buf, p + 3) = 1

\* the units of a payload when every unit ends at the next start code, or at
\* the last byte of the payload when none follows
RECURSIVE UnitsToTheEnd(_, _)
UnitsToTheEnd(buf, s) ==
    IF {p \in s..(Len(buf) - 3) : WholeStartCodeAt(buf, p)} = {}
    THEN <<>>
    ELSE LET sc == Least({p \in s..(Len(buf) - 3) : WholeStartCodeAt(buf, p)})
             start == IF B(buf, sc + 2) = 1 THEN sc + 3 ELSE sc + 4
             following == {p \in start..(Len(buf) - 3) : WholeStartCodeAt(buf, p)}
             next == IF following = {} THEN Len(buf) ELSE Least(following)
         IN (IF next > start THEN <<SubSeq(buf, start + 1, next)>> ELSE <<>>)
            \o UnitsToTheEnd(buf, next)

\* C36: the flush of an Annex-B payload delivers units that, taken together,
\* hold every byte behind a start code that is not part of a start code: the
\* last unit reaches the last byte of the payload
C36_LastUnitToTheEnd ==
    (nlast.op \in {"pes", "final"} /\ nlast.ret = 0 /\ HasStartCodes(nlast.payload))
    => nlast.delivered = PassOrder(UnitsToTheEnd(nlast.payload, 0))
\* ------------------------------------------------------------------------
\* Resuming behind a segment whose download failed
\* ------------------------------------------------------------------------
\* the step being taken refreshes the playlist, and the new playlist still
\* lists the URI recorded last, which was never handed to the callback (its
\* download failed, or yielded no bytes)
RefreshBehindFailure ==
    /\ hlast'.op = "playlist_ok"
    /\ last_processed_url # NULL
    /\ last_processed_url \notin delivered
    /\ FirstPos(playlist', last_processed_url) > 0

\* none of the segments left to dispatch carries the URI
NotFetchedAgain(pl, from, url) == \A k \in (from + 1)..Len(pl) : pl[k] # url

MasterPlaylist == <<>>

\* every download so far succeeded and yielded no segment
OnlyMasterSoFar ==
    /\ playlist = MasterPlaylist /\ i = 0 /\ last_count = 0
    /\ last_processed_url = NULL /\ delivered = {}
    /\ hlast.op \in {"none", "playlist_ok", "sleep"}

\* a step of the loop that is not a failed download or allocation and in
\* which the server answers with a master playlist
MasterStep ==
    /\ OnlyMasterSoFar
    /\ hlast'.op \notin {"playlist_fail", "playlist_nomem"}
    /\ playlist' = MasterPlaylist

\* C38: while every download of the playlist succeeds and yields a master
\* playlist, hls_process_stream never invokes the callback, sets no error
\* and does not return: each download is followed by the sleep and each sleep
\* by the next download.
C38_MasterPlaylistSpins ==
    [][ MasterStep
          => /\ OnlyMasterSoFar'
             /\ ~hlast'.called /\ delivered' = {} /\ hret' = "none"
             /\ hpc' # "done"
             /\ (hpc = "fetch" => hpc' = "sleep" /\ nfetch' = nfetch + 1)
             /\ (hpc = "sleep" => hpc' = "fetch" /\ nfetch' = nfetch) ]_vars

C38_Witness ==
    /\ OnlyMasterSoFar /\ nfetch = 2 /\ hpc = "fetch" /\ hlast.op = "sleep"
    /\ delivered = {} /\ hret = "none"
C40_SpsReadsInside ==
    sps_nal # <<>> => sps_top < Len(sps_nal)

C40_Witness ==
    /\ Len(sps_nal) >= 6 /\ sps_nal[2] = 66
    /\ sps_top = Len(sps_nal) - 1
    /\ AfterWidth(sps_nal).bits_left > 0

====
